---------------------------- MODULE Spec2Model ----------------------------
(***************************************************************************)
(* Agrosilo ThingSpeak -> MongoDB ingestion pipeline.                      *)
(*                                                                         *)
(* The model covers backend/app/services.py (IngestService), the          *)
(* repositories of backend/app/repositories.py and assessments.py, the    *)
(* ThingSpeak client and the scheduler / manual trigger of api.py.        *)
(*                                                                         *)
(* Python's None is the empty tuple <<>>, a present value x is <<x>>.     *)
(* Timestamps are minutes after 2024-01-01T00:00:00Z; sensor values are   *)
(* whole numbers (every float the model meets is integral).               *)
(***************************************************************************)
EXTENDS Integers, Sequences, FiniteSets, TLC

VARIABLES
    env,            \* os.environ: which of the required variables are set (non-empty)
    startup,        \* _startup: "pending", "ok" (returned) or "failed" (raised)
    ingestion_service,  \* the global of api.py: TRUE once assigned, FALSE while None
    f_press,        \* IngestService.f_press: TS_FIELD_PRESS of the environment
    results,        \* IngestService.results: TS_FETCH_RESULTS of the environment
    channel,        \* the remote ThingSpeak channel: its entries, oldest first
    sensors,        \* collection "sensors": sensors[i] is the type of the sensor with id i
    readings,       \* collection "readings": documents in insertion order
    assessments,    \* collection "grain_assessments": documents, one per (silo, ts)
    task,           \* the coroutines: task["poll"] is periodic_poll, task["manual"] is trigger_sync
    timer,          \* seconds left of the asyncio.sleep periodic_poll is suspended in
    waited,         \* seconds periodic_poll has slept since its last cycle ended
    lastOutcome,    \* how the last cycle of periodic_poll ended: "none", "ok" or "error"
    cancel,         \* polling_task.cancel() of _shutdown: "no", "pending" or "delivered"
    request,        \* the call of AnalysisService being served: its arguments, or None
    response        \* what that call returned, or None while it has not

vars == <<env, startup, ingestion_service, f_press, results, channel, sensors, readings,
          assessments, task, timer, waited, lastOutcome, cancel, request, response>>

\* The variables of the analysis service, which the pipeline never touches.
analysis == <<request, response>>

---------------------------------------------------------------------------
(* Bounds of the model *)

\* Longest channel history the full system (Spec) starts with.
MaxChannel == 1
\* Longest channel history a manual synchronisation is run over (SyncSpec).
MaxFeeds == 4

---------------------------------------------------------------------------
(* Program constants *)

POLL_SECONDS == 15
TS_FETCH_RESULTS == 100
spike_temp == 10
spike_hum == 30
spike_press == 8
TEMP_LO == -40
TEMP_HI == 85
HUM_LO == 0
HUM_HI == 100
PRESS_LO == 800
PRESS_HI == 1100
f_temp == 1
f_hum == 2

None == <<>>
Some(x) == <<x>>

Tasks == {"poll", "manual"}
Types == <<"temperature", "humidity", "pressure">>

---------------------------------------------------------------------------
(* The remote channel.  An entry is one device post: a creation time and   *)
(* the three fields, each a JSON string or null.                           *)

Entry(c, a, b, d) == [created_at |-> c, field1 |-> a, field2 |-> b, field3 |-> d]

EntrySeq ==
    << Entry("2024-01-01T00:01:00Z", Some("10"), Some("12"), Some("1000")),
       Entry("2024-01-01T00:02:00Z", Some("11"), Some("50"), Some("1004")),
       Entry("2024-01-01T00:03:00Z", Some("40"), Some("42"), Some("1010")),
       Entry("2024-01-01T00:04:00Z", Some("12"), Some("100"), Some("1008")),
       Entry("2024-01-01T03:02:00+03:00", Some("90"), Some("50"), Some("700")),
       Entry("2024-01-01T00:03:00Z", None, Some(""), Some("abc")),
       Entry("bad", Some("11"), None, Some("1000")) >>

Entries == {EntrySeq[i] : i \in 1..Len(EntrySeq)}

\* The entries the channel history of the full system is drawn from: two
\* plain posts and one whose temperature field is null.
Posts == {EntrySeq[1], EntrySeq[2], EntrySeq[6]}

\* float(v) of a string: Some(number), or None where Python raises ValueError.
float(v) ==
    CASE v = "10" -> Some(10)     [] v = "11" -> Some(11)
      [] v = "12" -> Some(12)
      [] v = "40" -> Some(40)     [] v = "42" -> Some(42)
      [] v = "50" -> Some(50)     [] v = "90" -> Some(90)
      [] v = "100" -> Some(100)   [] v = "101" -> Some(101)
      [] v = "700" -> Some(700)
      [] v = "1000" -> Some(1000) [] v = "1004" -> Some(1004)
      [] v = "1008" -> Some(1008) [] v = "1010" -> Some(1010)
      [] OTHER -> None

\* datetime.fromisoformat(raw_ts.replace("Z", "+00:00")).astimezone(utc):
\* Some(minute), or None where fromisoformat raises ValueError.
_parse_ts(raw_ts) ==
    CASE raw_ts = "2024-01-01T00:01:00Z" -> Some(1)
      [] raw_ts = "2024-01-01T00:02:00Z" -> Some(2)
      [] raw_ts = "2024-01-01T03:02:00+03:00" -> Some(2)
      [] raw_ts = "2024-01-01T00:03:00Z" -> Some(3)
      [] raw_ts = "2024-01-01T00:04:00Z" -> Some(4)
      [] OTHER -> None

\* One feed of /channels/<id>/fields/<field>.json: created_at and that field.
Feed(e, field) ==
    [created_at |-> e.created_at, field |-> field,
     value |-> CASE field = 1 -> e.field1 [] field = 2 -> e.field2 [] OTHER -> e.field3]

LastN(s, n) == IF Len(s) <= n THEN s ELSE SubSeq(s, Len(s) - n + 1, Len(s))

\* ThingSpeakClient.fetch_field(field, results): the last n feeds of the field.
fetch_field(field, n) ==
    LET w == LastN(channel, n) IN [i \in 1..Len(w) |-> Feed(w[i], field)]


---------------------------------------------------------------------------
(* IngestService: parsing, range validation, ordering, spike filter *)

\* The physical range and the spike threshold sync_all passes for each type.
Field(k) == CASE k = 1 -> f_temp [] k = 2 -> f_hum [] OTHER -> 3
Lo(k) == CASE k = 1 -> TEMP_LO [] k = 2 -> HUM_LO [] OTHER -> PRESS_LO
Hi(k) == CASE k = 1 -> TEMP_HI [] k = 2 -> HUM_HI [] OTHER -> PRESS_HI
Spike(k) == CASE k = 1 -> spike_temp [] k = 2 -> spike_hum [] OTHER -> spike_press

\* IngestService._parse: "none" is the None it returns for an absent, empty or
\* non-numeric value, "raise" the ValueError of _parse_ts, which it does not catch.
_parse(raw, field) ==
    LET v == IF raw.field = field THEN raw.value ELSE None IN
    IF v = None \/ v = Some("") THEN [kind |-> "none"]
    ELSE IF float(v[1]) = None THEN [kind |-> "none"]
    ELSE IF _parse_ts(raw.created_at) = None THEN [kind |-> "raise"]
    ELSE [kind |-> "ok", ts |-> _parse_ts(raw.created_at)[1], val |-> float(v[1])[1]]

\* IngestService._in_range
_in_range_strict(v, lo, hi) == lo < v /\ v < hi
_in_range(v, lo, hi) == lo <= v /\ v <= hi

\* list.sort(key=ts): stable, so equal timestamps keep their feed order.
RECURSIVE InsertByTs(_, _)
InsertByTs(s, x) ==
    IF s = <<>> THEN <<x>>
    ELSE IF s[Len(s)].ts <= x.ts THEN Append(s, x)
    ELSE Append(InsertByTs(SubSeq(s, 1, Len(s) - 1), x), s[Len(s)])

RECURSIVE SortByTs(_)
SortByTs(s) ==
    IF s = <<>> THEN <<>> ELSE InsertByTs(SortByTs(SubSeq(s, 1, Len(s) - 1)), s[Len(s)])

SelectInRange(ps, lo, hi) ==
    LET F[i \in 0..Len(ps)] ==
            IF i = 0 THEN <<>>
            ELSE IF _in_range(ps[i].val, lo, hi)
                 THEN Append(F[i - 1], [ts |-> ps[i].ts, val |-> ps[i].val])
                 ELSE F[i - 1]
    IN F[Len(ps)]

\* _sync_one, lines 151-153: parse every feed, keep the in-range ones, sort.
\* exc is the exception the two list comprehensions raise, if any: line 151
\* runs over all feeds first (ValueError of a bad created_at), then line 152
\* unpacks each result (TypeError on a None).
Parse(feeds, field, lo, hi) ==
    LET ps == [i \in 1..Len(feeds) |-> _parse(feeds[i], field)] IN
    IF \E i \in 1..Len(feeds) : ps[i].kind = "raise"
        THEN [exc |-> Some("ValueError"), parsed |-> <<>>]
    ELSE IF \E i \in 1..Len(feeds) : ps[i].kind = "none"
        THEN [exc |-> Some("TypeError"), parsed |-> <<>>]
    ELSE [exc |-> None, parsed |-> SortByTs(SelectInRange(ps, lo, hi))]

\* One iteration of the anti-spike loop, lines 165-172.
SpikeStep_keep_moving(a, s, spike, sensor_id) ==
    IF a.prev_val # None /\ (IF s.val >= a.prev_val[1] THEN s.val - a.prev_val[1]
                                                    ELSE a.prev_val[1] - s.val) > spike
    THEN [a EXCEPT !.dropped = @ + 1, !.prev_val = Some(s.val)]
    ELSE [cleaned |-> Append(a.cleaned, [sensor_id |-> sensor_id, ts |-> s.ts, value |-> s.val]),
          dropped |-> a.dropped, prev_val |-> Some(s.val),
          last_val |-> Some(s.val), last_ts |-> Some(s.ts)]

SpikeStep(a, s, spike, sensor_id) ==
    IF a.prev_val # None /\ (IF s.val >= a.prev_val[1] THEN s.val - a.prev_val[1]
                                                    ELSE a.prev_val[1] - s.val) > spike
    THEN [a EXCEPT !.dropped = @ + 1]
    ELSE [cleaned |-> Append(a.cleaned, [sensor_id |-> sensor_id, ts |-> s.ts, value |-> s.val]),
          dropped |-> a.dropped, prev_val |-> Some(s.val),
          last_val |-> Some(s.val), last_ts |-> Some(s.ts)]

\* The whole loop over parsed, from the state of lines 155-159.
SpikeLoop(parsed, spike, sensor_id) ==
    LET F[i \in 0..Len(parsed)] ==
            IF i = 0
            THEN [cleaned |-> <<>>, dropped |-> 0, prev_val |-> None,
                  last_val |-> None, last_ts |-> None]
            ELSE SpikeStep(F[i - 1], parsed[i], spike, sensor_id)
    IN F[Len(parsed)]

---------------------------------------------------------------------------
(* Repositories *)

\* ReadingRepository.upsert_many.  repositories.py defines upsert_many (lines
\* 87-104) inside the module-level function ensure_time_series, which starts at
\* column 0 and so ends the class body after __init__: the name is a local of
\* that function, never an attribute of the class.  The method the instance
\* has is the one it inherits from the Protocol IReadingRepository, whose body
\* is "...": it writes nothing and returns None.
upsert_many_insert(col, rs) ==
    [col |-> col \o [i \in 1..Len(rs) |->
                        [sensor |-> rs[i].sensor_id, ts |-> rs[i].ts, value |-> rs[i].value]],
     ret |-> Some(Len(rs))]

\* upsert_many as lines 87-104 of repositories.py would run it: one upsert with
\* $setOnInsert per reading, in order, the count being that of the operations.
RECURSIVE upsert_many_setOnInsert(_, _)
upsert_many_setOnInsert(col, rs) ==
    IF rs = <<>> THEN [col |-> col, ret |-> Some(0)]
    ELSE LET r == rs[1]
             has == \E j \in 1..Len(col) : col[j].sensor = r.sensor_id /\ col[j].ts = r.ts
             rest == upsert_many_setOnInsert(
                         IF has THEN col
                         ELSE Append(col, [sensor |-> r.sensor_id, ts |-> r.ts, value |-> r.value]),
                         Tail(rs))
         IN [col |-> rest.col, ret |-> Some(rest.ret[1] + 1)]

upsert_many(col, rs) == [col |-> col, ret |-> None]

\* SensorRepository.get_by_type: the find_one on (silo, type).  Without a sort
\* and without a unique index the server may return any matching document.
get_by_type(sensor_type) == {i \in 1..Len(sensors) : sensors[i] = sensor_type}

\* AssessmentRepository.insert: update_one({silo, ts}, {$set: doc}, upsert=True).
assessment_insert_first_wins(col, doc) ==
    IF \E d \in col : d.ts = doc.ts THEN col ELSE col \cup {doc}

assessment_insert(col, doc) == {d \in col : d.ts # doc.ts} \cup {doc}

---------------------------------------------------------------------------
(* sync_all and _sync_one as coroutines.  A step runs from one await to the *)
(* next: asyncio runs the code between two awaits without interruption.     *)
(*   pc = "fetch"   suspended in ts.fetch_field            (services.py:145) *)
(*   pc = "find"    suspended in sensors.col.find_one      (repositories.py:18) *)
(*   pc = "insert"  suspended in sensors.col.insert_one    (repositories.py:29) *)
(*   pc = "assess"  suspended in assessments.insert        (services.py:253) *)
(*   pc = "sleep"   suspended in asyncio.sleep(POLL_SECONDS)       (api.py:73) *)
(*   pc = "backoff" suspended in asyncio.sleep(POLL_SECONDS * 2)   (api.py:81) *)
(*   pc = "done"    periodic_poll has ended with CancelledError             *)
(*   pc = "idle"    no trigger_sync request is being served                 *)
(* upsert_many is awaited too, but the inherited stub never suspends.       *)

\* The locals of one sync_all call, as it starts its first _sync_one.  feeds
\* and parsed are those of the _sync_one in progress; call is the frame of the
\* _sync_one that ended last, as it was when it returned or raised; saved
\* tells whether the insert of line 253 returned (TRUE) or raised (FALSE).
Locals(pc) ==
    [pc |-> pc, stage |-> 1, feeds |-> <<>>, parsed |-> <<>>, call |-> None,
     t |-> None, h |-> None, p |-> None, doc |-> None, saved |-> None,
     raised |-> None]

\* sync_all calls _sync_one for the k-th type: up to the await of line 145.
Enter(l, k) == [l EXCEPT !.pc = "fetch", !.stage = k, !.feeds = <<>>, !.parsed = <<>>]

\* The frame of a _sync_one as it ends.  cleaned and stored are None when
\* upsert_many was not reached, ret is None when the call raised exc.
Frame(l, feeds, parsed, sensor, created, cleaned, dropped, prev_val, ret, exc) ==
    [l EXCEPT !.call = Some([type |-> Types[l.stage], feeds |-> feeds, parsed |-> parsed,
                             sensor |-> sensor, created |-> created, cleaned |-> cleaned,
                             dropped |-> dropped, prev_val |-> prev_val,
                             ret |-> ret, exc |-> exc])]

ZeroSummary(ty) ==
    [type |-> ty, received |-> 0, stored |-> Some(0), dropped |-> 0, last |-> None]

\* The current instant: later than every creation time the channel can hold.
Now ==
    LET T == {_parse_ts(e.created_at)[1] : e \in {x \in Entries : _parse_ts(x.created_at) # None}}
    IN 1 + CHOOSE m \in T : \A n \in T : n <= m

\* sync_all, lines 206-253: the assessment document, up to the await of its
\* insert.  Line 212 evaluates t["last"]["ts"] whenever either summary has a
\* last reading: with t["last"] None that subscript raises TypeError.
Assess(l) ==
    LET temp == IF l.t[1].last # None THEN Some(l.t[1].last[1].value) ELSE None
        hum  == IF l.h[1].last # None THEN Some(l.h[1].last[1].value) ELSE None
        pres == IF l.p # None /\ l.p[1].last # None THEN Some(l.p[1].last[1].value) ELSE None
    IN
    IF l.t[1].last = None /\ l.h[1].last # None
    THEN [l EXCEPT !.pc = "error", !.raised = Some("TypeError")]
    ELSE [l EXCEPT !.pc = "assess",
                   !.doc = Some([ts |-> IF l.t[1].last # None THEN l.t[1].last[1].ts ELSE Now,
                                 temp |-> temp, hum |-> hum, pressure |-> pres])]

\* sync_all after its k-th _sync_one has returned or raised (lines 192-204),
\* run on to the next await.  Only the pressure call is inside a try.
Continue_pressure_raises(l) ==
    LET c == l.call[1] IN
    IF c.exc # None
    THEN [l EXCEPT !.pc = "error", !.raised = c.exc]
    ELSE CASE l.stage = 1 -> Enter([l EXCEPT !.t = c.ret], 2)
           [] l.stage = 2 -> IF f_press # None
                             THEN Enter([l EXCEPT !.h = c.ret], 3)
                             ELSE Assess([l EXCEPT !.h = c.ret])
           [] OTHER -> Assess([l EXCEPT !.p = c.ret])

Continue(l) ==
    LET c == l.call[1] IN
    IF c.exc # None
    THEN IF l.stage = 3
         THEN Assess([l EXCEPT !.p = Some(ZeroSummary("pressure"))])
         ELSE [l EXCEPT !.pc = "error", !.raised = c.exc]
    ELSE CASE l.stage = 1 -> Enter([l EXCEPT !.t = c.ret], 2)
           [] l.stage = 2 -> IF f_press # None
                             THEN Enter([l EXCEPT !.h = c.ret], 3)
                             ELSE Assess([l EXCEPT !.h = c.ret])
           [] OTHER -> Assess([l EXCEPT !.p = c.ret])

\* _sync_one returns at line 148: no feeds.
ReturnEmpty(l) ==
    Frame(l, <<>>, <<>>, None, FALSE, None, 0, None, Some(ZeroSummary(Types[l.stage])), None)

\* _sync_one raises exc before get_or_create is called.
Raise(l, feeds, exc) == Frame(l, feeds, <<>>, None, FALSE, None, 0, None, None, Some(exc))

\* _sync_one, lines 165-182: the spike loop, the write and the summary.
Store(l, sensor_id, created, written) ==
    LET a == CHOOSE x \in {SpikeLoop(l.parsed, Spike(l.stage), sensor_id)} : TRUE IN
    Frame(l, l.feeds, l.parsed, Some(sensor_id), created, Some(a.cleaned), a.dropped, a.prev_val,
          Some([type |-> Types[l.stage], received |-> Len(l.feeds),
                stored |-> written, dropped |-> a.dropped,
                last |-> IF a.last_ts # None
                         THEN Some([ts |-> a.last_ts[1], value |-> a.last_val[1]])
                         ELSE None]),
          None)

\* periodic_poll, lines 72-73 and 78-81: the sleep after a cycle.
BackoffSeconds_same == POLL_SECONDS
BackoffSeconds == POLL_SECONDS * 2

\* The caller of sync_all once it has returned or raised.  periodic_poll goes
\* straight to its sleep, its cycle's locals dead; trigger_sync holds the
\* result (pc "ok") or the exception (pc "error") until the response is sent.
Settle(tk, after) ==
    \E l \in {after} :
        IF l.pc \in {"ok", "error"} /\ tk = "poll"
        THEN /\ task' = [task EXCEPT ![tk] = Locals(IF l.pc = "ok" THEN "sleep" ELSE "backoff")]
             /\ timer' = IF l.pc = "ok" THEN POLL_SECONDS ELSE BackoffSeconds
             /\ waited' = 0
             /\ lastOutcome' = l.pc
        ELSE /\ task' = [task EXCEPT ![tk] = l]
             /\ UNCHANGED <<timer, waited, lastOutcome>>

\* A coroutine may take a step: periodic_poll not once it has been cancelled,
\* since the CancelledError is what it is resumed with.
Runs(tk) == tk = "poll" => cancel # "pending"

\* fetch_field returns: an empty list ends _sync_one at line 148; otherwise
\* lines 151-153 run and get_or_create issues its find_one.
Fetch(tk) ==
    LET l == task[tk] IN
    /\ l.pc = "fetch" /\ Runs(tk)
    /\ \E feeds \in {fetch_field(Field(l.stage), results)} :
       \E q \in {Parse(feeds, Field(l.stage), Lo(l.stage), Hi(l.stage))} :
       \E r \in {IF feeds = <<>> THEN ReturnEmpty(l)
                  ELSE IF q.exc # None THEN Raise(l, feeds, q.exc[1])
                  ELSE [l EXCEPT !.feeds = feeds, !.parsed = q.parsed, !.pc = "find"]} :
          Settle(tk, IF r.pc = "find" THEN r ELSE Continue(r))
    /\ UNCHANGED <<analysis, results, env, startup, ingestion_service, f_press, channel, sensors, readings, assessments, cancel>>

\* fetch_field raises: a transport error or raise_for_status (line 45).
FetchFail(tk) ==
    LET l == task[tk] IN
    /\ l.pc = "fetch" /\ Runs(tk)
    /\ \E r \in {Raise(l, <<>>, "HTTPError")} : Settle(tk, Continue(r))
    /\ UNCHANGED <<analysis, results, env, startup, ingestion_service, f_press, channel, sensors, readings, assessments, cancel>>

\* get_or_create, lines 18-20: find_one returns a sensor, and _sync_one runs
\* to its return.
Found(tk) ==
    LET l == task[tk] IN
    /\ l.pc = "find" /\ Runs(tk)
    /\ \E id \in get_by_type(Types[l.stage]) :
          \E w \in {upsert_many(readings, SpikeLoop(l.parsed, Spike(l.stage), id).cleaned)} :
          \E r \in {Store(l, id, FALSE, w.ret)} :
             /\ readings' = w.col
             /\ Settle(tk, Continue(r))
    /\ UNCHANGED <<analysis, results, env, startup, ingestion_service, f_press, channel, sensors, assessments, cancel>>

\* get_or_create, lines 18-21: find_one returns nothing, insert_one is issued.
NotFound(tk) ==
    LET l == task[tk] IN
    /\ l.pc = "find" /\ Runs(tk)
    /\ get_by_type(Types[l.stage]) = {}
    /\ task' = [task EXCEPT ![tk].pc = "insert"]
    /\ UNCHANGED <<analysis, results, env, startup, ingestion_service, f_press, channel, sensors, readings, assessments, timer, waited,
                   lastOutcome, cancel>>

\* get_or_create, lines 21-26: insert_one creates the sensor, and _sync_one
\* runs to its return.
Insert(tk) ==
    LET l == task[tk]
        id == Len(sensors) + 1
    IN
    /\ l.pc = "insert" /\ Runs(tk)
    /\ sensors' = Append(sensors, Types[l.stage])
    /\ \E w \in {upsert_many(readings, SpikeLoop(l.parsed, Spike(l.stage), id).cleaned)} :
       \E r \in {Store(l, id, TRUE, w.ret)} :
          /\ readings' = w.col
          /\ Settle(tk, Continue(r))
    /\ UNCHANGED <<analysis, results, env, startup, ingestion_service, f_press, channel, assessments, cancel>>

\* assessments.insert returns: the snapshot is written (services.py:253).
AssessSaved(tk) ==
    LET l == task[tk] IN
    /\ l.pc = "assess" /\ Runs(tk)
    /\ assessments' = assessment_insert(assessments, l.doc[1])
    /\ Settle(tk, [l EXCEPT !.pc = "ok", !.saved = Some(TRUE)])
    /\ UNCHANGED <<analysis, results, env, startup, ingestion_service, f_press, channel, sensors, readings, cancel>>

\* assessments.insert raises: logged and swallowed (services.py:254-255).
AssessFailed_raises(tk) ==
    LET l == task[tk] IN
    /\ l.pc = "assess" /\ Runs(tk)
    /\ Settle(tk, [l EXCEPT !.pc = "error", !.saved = Some(FALSE),
                            !.raised = Some("PyMongoError")])
    /\ UNCHANGED <<analysis, results, env, startup, ingestion_service, f_press, channel, sensors, readings, assessments, cancel>>

AssessFailed(tk) ==
    LET l == task[tk] IN
    /\ l.pc = "assess" /\ Runs(tk)
    /\ Settle(tk, [l EXCEPT !.pc = "ok", !.saved = Some(FALSE)])
    /\ UNCHANGED <<analysis, results, env, startup, ingestion_service, f_press, channel, sensors, readings, assessments, cancel>>

---------------------------------------------------------------------------
(* The scheduler, the manual trigger and the shutdown handler *)

\* Time passes while periodic_poll sleeps; a step is one polling interval.
Tick ==
    /\ task["poll"].pc \in {"sleep", "backoff"} /\ Runs("poll")
    /\ timer > 0
    /\ timer' = timer - POLL_SECONDS
    /\ waited' = waited + POLL_SECONDS
    /\ UNCHANGED <<analysis, results, env, startup, ingestion_service, f_press, channel, sensors, readings, assessments, task,
                   lastOutcome, cancel>>

\* asyncio.sleep returns: the while loop of periodic_poll starts the next
\* cycle (api.py:68-71).
Wake ==
    /\ task["poll"].pc \in {"sleep", "backoff"} /\ Runs("poll")
    /\ timer = 0
    /\ task' = [task EXCEPT !["poll"] = Locals("fetch")]
    /\ UNCHANGED <<analysis, results, env, startup, ingestion_service, f_press, channel, sensors, readings, assessments, timer, waited,
                   lastOutcome, cancel>>

\* _shutdown: polling_task.cancel() (api.py:183-184).
Shutdown ==
    /\ task["poll"].pc # "none"
    /\ cancel = "no"
    /\ cancel' = "pending"
    /\ UNCHANGED <<analysis, results, env, startup, ingestion_service, f_press, channel, sensors, readings, assessments, task, timer,
                   waited, lastOutcome>>

\* periodic_poll is resumed with CancelledError at the await it is suspended
\* in.  Inside the try it reaches "except asyncio.CancelledError: raise"
\* (api.py:74-77); in the sleep of the error handler (api.py:81) nothing
\* catches it; "except Exception" catches it nowhere.  The task ends.
Cancelled_swallowed ==
    /\ cancel = "pending" /\ task["poll"].pc # "done"
    /\ cancel' = "delivered"
    /\ task' = [task EXCEPT !["poll"] = Locals("fetch")]
    /\ UNCHANGED <<analysis, results, env, startup, ingestion_service, f_press, channel, sensors, readings, assessments, timer, waited,
                   lastOutcome>>

Cancelled ==
    /\ cancel = "pending" /\ task["poll"].pc # "done"
    /\ cancel' = "delivered"
    /\ task' = [task EXCEPT !["poll"].pc = "done"]
    /\ UNCHANGED <<analysis, results, env, startup, ingestion_service, f_press, channel, sensors, readings, assessments, timer, waited,
                   lastOutcome>>

\* POST /trigger-sync: sync_all runs in the request's own coroutine, whatever
\* periodic_poll is doing (api.py:197-204).
Trigger ==
    /\ startup # "pending"
    /\ ingestion_service
    /\ task["manual"].pc = "idle"
    /\ cancel = "no"
    /\ task' = [task EXCEPT !["manual"] = Locals("fetch")]
    /\ UNCHANGED <<analysis, results, env, startup, ingestion_service, f_press, channel, sensors, readings, assessments, timer, waited,
                   lastOutcome, cancel>>

\* trigger_sync is done: the result of sync_all, or the error, is answered.
Respond ==
    /\ task["manual"].pc \in {"ok", "error", "unavailable"}
    /\ task' = [task EXCEPT !["manual"] = Locals("idle")]
    /\ UNCHANGED <<analysis, results, env, startup, ingestion_service, f_press, channel, sensors, readings, assessments, timer, waited,
                   lastOutcome, cancel>>

\* POST /trigger-sync while ingestion_service is None: the error result is
\* returned, sync_all is not called (api.py:202-203).
TriggerUnavailable ==
    /\ startup # "pending"
    /\ ~ingestion_service
    /\ task["manual"].pc = "idle"
    /\ cancel = "no"
    /\ task' = [task EXCEPT !["manual"] = Locals("unavailable")]
    /\ UNCHANGED <<analysis, results, env, startup, ingestion_service, f_press, channel, sensors, readings,
                   assessments, timer, waited, lastOutcome, cancel>>

\* The variables the constructors require.
Required == {"MONGODB_URI", "THINGSPEAK_CHANNEL_ID", "THINGSPEAK_READ_API_KEY", "SILO_ID"}

\* ThingSpeakClient.__init__ returns: both credentials are set; otherwise it
\* raises ValueError (thingspeak_client.py:21-24).
ThingSpeakClient_init(e) == e["THINGSPEAK_CHANNEL_ID"] /\ e["THINGSPEAK_READ_API_KEY"]

\* IngestService.__init__ returns: SILO_ID is set; otherwise it raises
\* ValueError (services.py:36-38).
IngestService_init_unchecked(e) == TRUE
IngestService_init(e) == e["SILO_ID"]

\* _startup (api.py:113-163).  It raises at line 131 without MONGODB_URI, at
\* line 150 when ThingSpeakClient() raises and at line 153 when
\* IngestService() raises, the global ingestion_service still None and
\* create_task (line 161) not reached; otherwise ingestion_service is
\* assigned and periodic_poll created.  No request is served meanwhile.
Startup ==
    /\ startup = "pending"
    /\ IF env["MONGODB_URI"] /\ ThingSpeakClient_init(env) /\ IngestService_init(env)
       THEN /\ startup' = "ok"
            /\ ingestion_service' = TRUE
            /\ task' = [task EXCEPT !["poll"] = Locals("fetch")]
       ELSE /\ startup' = "failed"
            /\ UNCHANGED <<ingestion_service, task>>
    /\ UNCHANGED <<analysis, results, env, f_press, channel, sensors, readings, assessments, timer,
                   waited, lastOutcome, cancel>>

Step(tk) ==
    \/ Fetch(tk)
    \/ FetchFail(tk)
    \/ Found(tk)
    \/ NotFound(tk)
    \/ Insert(tk)
    \/ AssessSaved(tk)
    \/ AssessFailed(tk)

---------------------------------------------------------------------------
(* The system after _startup: empty collections, periodic_poll created and *)
(* in its first cycle.  The channel holds what the device has posted; it   *)
(* posts nothing more while the system is observed.                        *)

\* The sequences over S of length at most n.
SeqsUpTo(S, n) == UNION {[1..k -> S] : k \in 0..n}

Init ==
    /\ env = [v \in Required |-> TRUE]
    /\ startup = "ok"
    /\ ingestion_service = TRUE
    /\ f_press \in {None, Some("3")}
    /\ results = TS_FETCH_RESULTS
    /\ channel \in SeqsUpTo(Posts, MaxChannel)
    /\ sensors = <<>>
    /\ readings = <<>>
    /\ assessments = {}
    /\ task = [tk \in Tasks |-> IF tk = "poll" THEN Locals("fetch") ELSE Locals("idle")]
    /\ timer = 0
    /\ waited = 0
    /\ lastOutcome = "none"
    /\ cancel = "no"
    /\ request = None
    /\ response = None

PollNext == Step("poll") \/ Tick \/ Wake \/ Cancelled

Next ==
    \/ PollNext
    \/ Step("manual")
    \/ Trigger
    \/ Respond
    \/ Shutdown

Spec == Init /\ [][Next]_vars

\* The polling task on its own, no request being served.  The event loop
\* resumes a ready coroutine and fires a due timer.
PollSpecNext == PollNext \/ Shutdown

PollSpec == Init /\ [][PollSpecNext]_vars /\ WF_vars(PollNext)

---------------------------------------------------------------------------
(* Manual synchronisations over an arbitrary channel history, while        *)
(* periodic_poll sleeps.  The system is as it is after a first cycle that  *)
(* found the channel empty, the device having posted since: no sensor yet, *)
(* the snapshot of that cycle written.                                     *)

AfterEmptyCycle ==
    LET a1 == Continue(ReturnEmpty(Locals("fetch")))
        a2 == Continue(ReturnEmpty(a1))
    IN IF a2.pc = "fetch" THEN Continue(ReturnEmpty(a2)) ELSE a2

SyncInit ==
    /\ env = [v \in Required |-> TRUE]
    /\ startup = "ok"
    /\ ingestion_service = TRUE
    /\ f_press \in {None, Some("3")}
    /\ results = TS_FETCH_RESULTS
    /\ channel \in SeqsUpTo(Entries, MaxFeeds)
    /\ sensors = <<>>
    /\ readings = <<>>
    /\ assessments = {AfterEmptyCycle.doc[1]}
    /\ task = [tk \in Tasks |-> IF tk = "poll" THEN Locals("sleep") ELSE Locals("idle")]
    /\ timer = POLL_SECONDS
    /\ waited = 0
    /\ lastOutcome = "ok"
    /\ cancel = "no"
    /\ request = None
    /\ response = None

SyncNext == Step("manual") \/ Trigger \/ Respond

SyncSpec == SyncInit /\ [][SyncNext]_vars

---------------------------------------------------------------------------
(* The application from before _startup, under any environment: nothing    *)
(* is constructed, no task exists, the collections are empty.              *)

StartInit ==
    /\ env \in [Required -> BOOLEAN]
    /\ startup = "pending"
    /\ ingestion_service = FALSE
    /\ f_press \in {None, Some("3")}
    /\ results = TS_FETCH_RESULTS
    /\ channel \in SeqsUpTo(Posts, MaxChannel)
    /\ sensors = <<>>
    /\ readings = <<>>
    /\ assessments = {}
    /\ task = [tk \in Tasks |-> IF tk = "poll" THEN Locals("none") ELSE Locals("idle")]
    /\ timer = 0
    /\ waited = 0
    /\ lastOutcome = "none"
    /\ cancel = "no"
    /\ request = None
    /\ response = None

StartNext == Startup \/ TriggerUnavailable \/ Next

StartSpec == StartInit /\ [][StartNext]_vars

---------------------------------------------------------------------------
(* Properties *)

Dist(a, b) == IF a >= b THEN a - b ELSE b - a

\* The frames of _sync_one that ended last, one per coroutine that has one.
Frames == {task[tk].call[1] : tk \in {x \in Tasks : task[x].call # None}}

\* The frames that ran the spike loop and called upsert_many.
Written == {c \in Frames : c.cleaned # None}

TypeNo(ty) == CHOOSE k \in 1..3 : Types[k] = ty

\* The list handed to upsert_many, and its timestamps, its values, and those
\* of the parsed samples.
Cleaned(c) == c.cleaned[1]
Stamps(rs) == [i \in 1..Len(rs) |-> rs[i].ts]
Values(rs) == [i \in 1..Len(rs) |-> rs[i].value]
Vals(ps) == [i \in 1..Len(ps) |-> ps[i].val]

\* The samples of ps at the positions A, in order.
Pick(ps, A) ==
    LET F[i \in 0..Len(ps)] ==
            IF i = 0 THEN <<>> ELSE IF i \in A THEN Append(F[i - 1], ps[i]) ELSE F[i - 1]
    IN F[Len(ps)]

Last(A) == CHOOSE m \in A : \A n \in A : n <= m

\* A is the set of positions the spike rule accepts: a position is accepted
\* exactly when no earlier one is, or its value is within thr of the value at
\* the latest accepted earlier position.
Accepts(ps, A, thr) ==
    \A i \in 1..Len(ps) :
        i \in A <=> LET E == {j \in A : j < i}
                    IN E = {} \/ Dist(ps[i].val, ps[Last(E)].val) <= thr

\* C1: over the parsed in-range samples in ascending timestamp order, a sample
\* is rejected exactly when a reference exists and |value - reference| exceeds
\* the spike threshold; a rejection adds one to dropped and leaves the
\* reference, an acceptance makes the sample the reference.  Values
\* [10, 11, 40, 12] with threshold 10 give [10, 11, 12] and dropped = 1.
C1_SpikeFilter ==
    \A c \in Written :
        LET ps == c.parsed
            thr == Spike(TypeNo(c.type))
        IN /\ \A i, j \in 1..Len(ps) : i < j => ps[i].ts <= ps[j].ts
           /\ \E A \in SUBSET (1..Len(ps)) :
                 /\ Accepts(ps, A, thr)
                 /\ Stamps(Cleaned(c)) = Stamps(Pick(ps, A))
                 /\ Values(Cleaned(c)) = Vals(Pick(ps, A))
                 /\ c.dropped = Len(ps) - Cardinality(A)
                 /\ c.prev_val = IF A = {} THEN None ELSE Some(ps[Last(A)].val)
           /\ (Vals(ps) = <<10, 11, 40, 12>> /\ thr = 10)
                 => Values(Cleaned(c)) = <<10, 11, 12>> /\ c.dropped = 1

C1_Witness ==
    \E c \in Written :
        /\ c.type = "temperature"
        /\ Vals(c.parsed) = <<10, 11, 40, 12>>
        /\ Values(Cleaned(c)) = <<10, 11, 12>>
        /\ c.dropped = 1

\* The documents of the collection with the key (sensor, ts).
Docs(sensor, ts) == {j \in 1..Len(readings) : readings[j].sensor = sensor /\ readings[j].ts = ts}

\* C2: the value stored for a (sensor, timestamp) key is the value of the
\* first write to it: a later write to an existing key changes nothing, a
\* write to an absent key creates the reading.  Under SyncSpec every cycle
\* writes the same list to the same sensor, so the first write to a key is
\* the first reading of the list with that key.
C2_FirstWriteKept ==
    \A c \in Written :
        \A i \in 1..Len(Cleaned(c)) :
            LET r == Cleaned(c)[i]
                first == CHOOSE j \in 1..i : /\ Cleaned(c)[j].ts = r.ts
                                             /\ \A n \in 1..(j - 1) : Cleaned(c)[n].ts # r.ts
            IN /\ Cardinality(Docs(r.sensor_id, r.ts)) = 1
               /\ \A j \in Docs(r.sensor_id, r.ts) : readings[j].value = Cleaned(c)[first].value

OfType(col, ty) == [i \in 1..Len(col) |-> [type |-> ty, ts |-> col[i].ts, value |-> col[i].value]]

SingleWrite(k) ==
    LET q == Parse(fetch_field(Field(k), results), Field(k), Lo(k), Hi(k)) IN
    IF q.exc # None THEN <<>>
    ELSE OfType(upsert_many(<<>>, SpikeLoop(q.parsed, Spike(k), k).cleaned).col, Types[k])

SingleCycle ==
    SingleWrite(1) \o SingleWrite(2) \o (IF f_press # None THEN SingleWrite(3) ELSE <<>>)

Stored ==
    [i \in 1..Len(readings) |->
        [type |-> sensors[readings[i].sensor], ts |-> readings[i].ts, value |-> readings[i].value]]

Count(s, x) == Cardinality({i \in 1..Len(s) : s[i] = x})

InFlight == {"fetch", "find", "insert", "assess"}

C5_OneSensorPerType == \A k \in 1..3 : Cardinality(get_by_type(Types[k])) <= 1

\* A feed whose value is absent, empty or non-numeric, or whose timestamp
\* does not parse.
Bad(feed) ==
    \/ feed.value = None
    \/ feed.value = Some("")
    \/ float(feed.value[1]) = None
    \/ _parse_ts(feed.created_at) = None

\* C6: a batch holding a bad sample does not fail: the call returns its
\* summary, the bad sample discarded and the others filtered and written.
C6_BadSampleDiscarded ==
    \A c \in Frames :
        (\E i \in 1..Len(c.feeds) : Bad(c.feeds[i]))
            => /\ c.exc = None
               /\ c.ret # None
               /\ c.cleaned # None

\* C7: a sample outside the physical range [lo, hi] of its type is discarded
\* before the spike filter: it is not counted in dropped, it is never the
\* reference value, and it is never stored.
C7_OutOfRangeDiscarded ==
    \A c \in Written :
        LET k == TypeNo(c.type)
            InR(v) == Lo(k) <= v /\ v <= Hi(k)
            good == {i \in 1..Len(c.feeds) : InR(float(c.feeds[i].value[1])[1])}
        IN /\ \A i \in 1..Len(Cleaned(c)) : InR(Cleaned(c)[i].value)
           /\ c.prev_val # None => InR(c.prev_val[1])
           /\ Len(c.parsed) = Cardinality(good)
           /\ c.dropped + Len(Cleaned(c)) = Cardinality(good)
           /\ \A j \in 1..Len(readings) : readings[j].sensor = c.sensor[1] => InR(readings[j].value)

C7_Witness ==
    \E c \in Written :
        /\ \E i \in 1..Len(c.feeds) :
              LET v == float(c.feeds[i].value[1])[1]
              IN v < Lo(TypeNo(c.type)) \/ v > Hi(TypeNo(c.type))
        /\ Cleaned(c) # <<>>
        /\ c.dropped = 0

\* C8: the summary of a call reports received = the raw samples fetched,
\* dropped = the samples the spike filter rejected, stored = the write
\* operations attempted with stored + dropped <= received, and last = the
\* newest accepted sample.
C8_Summary ==
    \A c \in Frames :
        c.ret # None =>
            LET r == c.ret[1] IN
            /\ r.received = Len(c.feeds)
            /\ r.dropped = c.dropped
            /\ c.cleaned # None
                  => /\ r.dropped = Len(c.parsed) - Len(Cleaned(c))
                     /\ r.last = IF Cleaned(c) = <<>> THEN None
                                 ELSE Some([ts |-> Cleaned(c)[Len(Cleaned(c))].ts,
                                            value |-> Cleaned(c)[Len(Cleaned(c))].value])
            /\ r.stored # None
            /\ r.stored[1] + r.dropped <= r.received

Waiting == {"sleep", "backoff"}

\* C9: after a cycle that raised, periodic_poll waits 2 x POLL_SECONDS before
\* the next cycle; after a cycle that succeeded it waits POLL_SECONDS.  A
\* failed cycle never ends the loop: the task ends only by cancellation, and
\* a wait that is not cancelled is followed by the next cycle.
C9_Backoff ==
    /\ [][(task["poll"].pc \in Waiting /\ task'["poll"].pc = "fetch")
             => waited = IF lastOutcome = "error" THEN 2 * POLL_SECONDS ELSE POLL_SECONDS]_vars
    /\ [][task'["poll"].pc \in Waiting
             => (task'["poll"].pc = "backoff" <=> lastOutcome' = "error")]_vars
    /\ [](task["poll"].pc = "done" => cancel # "no")
    /\ (task["poll"].pc \in Waiting) ~> (task["poll"].pc = "fetch" \/ cancel # "no")

C9_Witness ==
    /\ task["poll"].pc = "fetch"
    /\ lastOutcome = "error"
    /\ waited = 2 * POLL_SECONDS

\* C10: when the polling task is cancelled during a wait, the cancellation is
\* propagated: the task terminates and starts no further cycle.
C10_CancelEndsTask ==
    /\ [][(cancel # "no" /\ task["poll"].pc \in Waiting \cup {"done"})
             => task'["poll"].pc \in {task["poll"].pc, "done"}]_vars
    /\ (cancel = "pending" /\ task["poll"].pc \in Waiting) ~> (task["poll"].pc = "done")

C10_Witness ==
    /\ task["poll"].pc = "done"
    /\ cancel = "delivered"
    /\ timer > 0

---------------------------------------------------------------------------
(* A remote fetch that fails *)

\* The frame of the _sync_one that ended last in trigger_sync's sync_all, when
\* fetch_field raised in it.
FetchFailed ==
    IF task["manual"].call # None /\ task["manual"].call[1].exc = Some("HTTPError")
    THEN {task["manual"].call[1]}
    ELSE {}

---------------------------------------------------------------------------
(* A snapshot that cannot be saved *)

\* The step in which the insert of tk's snapshot raises: tk leaves line 253
\* uncancelled and the collection, which lacked the snapshot, is as before.
WriteFails(tk) ==
    /\ task[tk].pc = "assess"
    /\ task'[tk] # task[tk]
    /\ cancel' = cancel
    /\ task[tk].doc[1] \notin assessments
    /\ assessments' = assessments

\* C12: when saving the snapshot fails, sync_all returns the three summaries
\* and the snapshot without raising, the readings collection is untouched,
\* and periodic_poll records a good cycle and sleeps POLL_SECONDS, not the
\* doubled interval.
C12_SnapshotFailureSwallowed ==
    [][\A tk \in Tasks :
          WriteFails(tk) =>
             /\ readings' = readings
             /\ IF tk = "poll"
                THEN /\ task'[tk].pc = "sleep"
                     /\ timer' = POLL_SECONDS
                     /\ lastOutcome' = "ok"
                ELSE /\ task'[tk].pc = "ok"
                     /\ task'[tk].raised = None
                     /\ task'[tk].saved = Some(FALSE)
                     /\ <<task'[tk].t, task'[tk].h, task'[tk].p, task'[tk].doc>>
                           = <<task[tk].t, task[tk].h, task[tk].p, task[tk].doc>>
                     /\ task'[tk].t # None /\ task'[tk].h # None]_vars

\* Both callers have had the write of a snapshot fail, in cycles that had
\* accepted a temperature reading: nothing is saved, periodic_poll sleeps
\* the normal interval and trigger_sync holds the result.
C12_Witness ==
    /\ assessments = {}
    /\ task["poll"].pc = "sleep" /\ lastOutcome = "ok" /\ timer = POLL_SECONDS
    /\ task["manual"].pc = "ok" /\ task["manual"].saved = Some(FALSE)
    /\ task["manual"].t[1].last # None

---------------------------------------------------------------------------
(* The snapshot's reference timestamp *)

\* trigger_sync's sync_all has gone through line 212: every configured
\* type has its summary.
Assessed ==
    /\ task["manual"].t # None
    /\ task["manual"].h # None
    /\ f_press # None => task["manual"].p # None

\* The later of the last accepted timestamps the two summaries carry, or the
\* current instant when neither carries one.
LaterOf(t, h) ==
    CASE t.last # None /\ h.last # None ->
            IF t.last[1].ts >= h.last[1].ts THEN t.last[1].ts ELSE h.last[1].ts
      [] t.last # None /\ h.last = None -> t.last[1].ts
      [] t.last = None /\ h.last # None -> h.last[1].ts
      [] OTHER -> Now

\* C13: the snapshot is built without error in all three cases, and its
\* timestamp is the later of the temperature and humidity last accepted
\* timestamps, the one that exists when only one does, and the current
\* instant when neither does.
C13_ReferenceTimestamp ==
    Assessed =>
        /\ task["manual"].pc # "error"
        /\ task["manual"].doc # None
        /\ task["manual"].doc[1].ts = LaterOf(task["manual"].t[1], task["manual"].h[1])

\* The two parts of C13 apart, to tell the inputs that break each.
C13_BuiltWithoutError == Assessed => task["manual"].pc # "error"

C13_LaterTimestamp ==
    (Assessed /\ task["manual"].doc # None) =>
        task["manual"].doc[1].ts = LaterOf(task["manual"].t[1], task["manual"].h[1])

---------------------------------------------------------------------------
(* The snapshot collection *)

\* The step in which tk's insert of its snapshot returns.  trigger_sync
\* holds the outcome; of periodic_poll's insert only the effect shows, so a
\* step that leaves line 253 counts unless the collection shows it failed.
WriteReturns(tk) ==
    /\ task[tk].pc = "assess"
    /\ task'[tk] # task[tk]
    /\ cancel' = cancel
    /\ IF tk = "manual" THEN task'[tk].saved = Some(TRUE) ELSE ~WriteFails(tk)

\* C14: the collection never holds two snapshots of one timestamp (the silo
\* is the one of SILO_ID), and a write leaves at its key exactly the snapshot
\* just written, whatever was there, and every other key as it was.
C14_SnapshotUpsert ==
    /\ [](\A d \in assessments : \A e \in assessments : d.ts = e.ts => d = e)
    /\ [][\A tk \in Tasks :
            WriteReturns(tk) =>
               LET doc == task[tk].doc[1] IN
               /\ doc \in assessments'
               /\ \A d \in assessments' : d.ts = doc.ts => d = doc
               /\ \A d \in assessments \cup assessments' :
                     d.ts # doc.ts => (d \in assessments <=> d \in assessments')]_vars

\* trigger_sync's snapshot was saved and has since been replaced by a
\* different snapshot of the same timestamp.
C14_Witness ==
    /\ task["manual"].pc = "ok"
    /\ task["manual"].saved = Some(TRUE)
    /\ task["manual"].doc[1] \notin assessments
    /\ \E d \in assessments : d.ts = task["manual"].doc[1].ts

---------------------------------------------------------------------------
(* Startup without the silo identity or the telemetry credentials *)

Unconfigured ==
    ~(env["SILO_ID"] /\ env["THINGSPEAK_CHANNEL_ID"] /\ env["THINGSPEAK_READ_API_KEY"])

\* C15: with SILO_ID or a telemetry credential missing, _startup never
\* returns normally and periodic_poll is never created, no cycle runs (no
\* sensor, reading or snapshot is written, no cycle outcome recorded), and
\* trigger_sync only ever answers the error result.
C15_StartupFailsUnconfigured ==
    Unconfigured =>
        /\ startup \in {"pending", "failed"}
        /\ ~ingestion_service
        /\ task["poll"].pc = "none"
        /\ task["manual"].pc \in {"idle", "unavailable"}
        /\ sensors = <<>> /\ readings = <<>> /\ assessments = {}
        /\ lastOutcome = "none"

\* Only SILO_ID is missing: _startup has failed and a manual trigger has
\* been answered with the error result.
C15_Witness ==
    /\ ~env["SILO_ID"]
    /\ env["MONGODB_URI"] /\ env["THINGSPEAK_CHANNEL_ID"] /\ env["THINGSPEAK_READ_API_KEY"]
    /\ startup = "failed"
    /\ task["manual"].pc = "unavailable"

---------------------------------------------------------------------------
(* AnalysisService.history (analysis/services.py).  The router builds the  *)
(* service over the SensorRepository and ReadingRepository of              *)
(* app/repositories.py, which have neither ids_by_silo_and_type nor        *)
(* get_readings: the fallbacks of lines 92-114 and 140-229 run.            *)

\* _sensor_ids_by_silo_and_type_fallback: the ids of every sensor document
\* of the silo with that type.
_get_sensor_ids(sensor_type) == {i \in 1..Len(sensors) : sensors[i] = sensor_type}

\* Match without the upper end of the window.
RECURSIVE Match_unbounded(_, _, _, _)
Match_unbounded(s, ids, start, end) ==
    IF s = <<>> THEN <<>>
    ELSE LET d == s[Len(s)]
             rest == Match_unbounded(SubSeq(s, 1, Len(s) - 1), ids, start, end)
         IN IF d.sensor \in ids /\ (start # None => d.ts >= start[1])
            THEN Append(rest, d)
            ELSE rest

\* The documents of s, in order, that satisfy the $match stages: the sensor
\* is one of ids, start <= ts when start is given, ts <= end when end is.
RECURSIVE Match(_, _, _, _)
Match(s, ids, start, end) ==
    IF s = <<>> THEN <<>>
    ELSE LET d == s[Len(s)]
             rest == Match(SubSeq(s, 1, Len(s) - 1), ids, start, end)
         IN IF /\ d.sensor \in ids
               /\ start # None => d.ts >= start[1]
               /\ end # None => d.ts <= end[1]
            THEN Append(rest, d)
            ELSE rest

\* _readings_adapter, the aggregation of lines 156-229: match, sort by ts
\* ascending, keep the first `limit`, project ts and value.
_readings_adapter(ids, start, end, limit) ==
    IF ids = {} THEN <<>>
    ELSE LET rows == SortByTs(Match(readings, ids, start, end))
         IN [i \in 1..(IF Len(rows) <= limit THEN Len(rows) ELSE limit) |->
                [ts |-> rows[i].ts, value |-> rows[i].value]]

\* _to_point_list: Point(t, v) of each row.
_to_point_list(rows) == [i \in 1..Len(rows) |-> [t |-> rows[i].ts, v |-> rows[i].value]]

\* history: the points of the series, empty without a sensor of the type.
history(sensor_type, start, end, limit) ==
    LET ids == _get_sensor_ids(sensor_type) IN
    IF ids = {} THEN <<>>
    ELSE _to_point_list(_readings_adapter(ids, start, end, limit))

\* The windows and limits history is queried with.
QueryTimes == {None, Some(2)}
QueryLimits == {1, 2}

---------------------------------------------------------------------------
(* AnalysisService: summary, aggregate and scatter_temp_vs_hum over the    *)
(* series history returns.  Here a time is the milliseconds after          *)
(* 2024-01-01T00:00:00Z (a BSON date carries milliseconds).  A float is    *)
(* Some(x) and NaN is None; a mean is the exact fraction [num, den].       *)

\* The longest series summarised or aggregated, and the longest of the two
\* series of a scatter.
MaxPoints == 3
MaxPair == 2

MINUTE_MS == 60000
FIVE_MIN_MS == 300000
HOUR_MS == 3600000
DAY_MS == 86400000

\* 00:00:00.000, 00:00:01.001, 00:30, 01:10 and 01:00 of the next day.
Times == {0, 1001, 1800000, 4200000, 90000000}
ScatterTimes == {0, 1800000, 4200000}
PointValues == {10, 20, 30}

Point(t, v) == [t |-> t, v |-> v]

\* The series of at most n points over times T and values V, in the order
\* history returns them: ascending in time, equal times allowed.
SeriesOver(T, V, n) ==
    {ps \in SeqsUpTo({Point(t, v) : t \in T, v \in V}, n) :
        \A i \in 2..Len(ps) : ps[i - 1].t <= ps[i].t}

\* thresholds.py: the bands of HumidityBands and TemperatureBands.
HUM_ideal_max == 13
HUM_moderate_max == 16
TMP_moderate_min == 20
TMP_moderate_max == 30
TMP_critical_min == 40

CARB_ideal_min == 400
CARB_ideal_max == 600
CARB_moderate_min == 600
CARB_moderate_max == 1100
CARB_critical_min == 5000

\* str.lower() of a sensor type.
lower(st) ==
    CASE st = "Humidity" -> "humidity"
      [] st = "TEMPERATURE" -> "temperature"
      [] st = "CO2" -> "co2"
      [] OTHER -> st

\* classify_value with the warning band of temperature left open above.
classify_value_wide(sensor_type, v) ==
    LET st == lower(sensor_type) IN
    CASE st = "humidity" ->
            IF v <= HUM_ideal_max THEN "normal"
            ELSE IF v <= HUM_moderate_max THEN "warning"
            ELSE "critical"
      [] st = "temperature" ->
            IF v < TMP_moderate_min THEN "normal"
            ELSE IF v >= TMP_critical_min THEN "critical"
            ELSE "warning"
      [] OTHER -> "normal"

\* classify_value.
classify_value(sensor_type, v) ==
    LET st == lower(sensor_type) IN
    CASE st = "humidity" ->
            IF v <= HUM_ideal_max THEN "normal"
            ELSE IF v <= HUM_moderate_max THEN "warning"
            ELSE "critical"
      [] st = "temperature" ->
            IF v < TMP_moderate_min THEN "normal"
            ELSE IF TMP_moderate_min <= v /\ v <= TMP_moderate_max THEN "warning"
            ELSE IF v >= TMP_critical_min THEN "critical"
            ELSE "normal"
      [] st = "co2" ->
            IF CARB_ideal_min <= v /\ v <= CARB_ideal_max THEN "normal"
            ELSE IF CARB_moderate_min <= v /\ v <= CARB_moderate_max THEN "warning"
            ELSE IF v >= CARB_critical_min THEN "critical"
            ELSE "normal"
      [] OTHER -> "normal"

\* int((cur.t - prev.t).total_seconds() * 1000) for a difference of d
\* milliseconds: total_seconds() is a float and int() truncates, so
\* 1.001 * 1000 = 1000.9999999999999 gives 1000.  The table holds the value
\* CPython computes for every difference between two of Times.
dt_ms(d) ==
    CASE d = 0 -> 0
      [] d = 1001 -> 1000
      [] d = 1800000 -> 1800000
      [] d = 1798999 -> 1798999
      [] d = 2400000 -> 2400000
      [] d = 4200000 -> 4200000
      [] d = 4198999 -> 4198999
      [] d = 85800000 -> 85800000
      [] d = 88200000 -> 88200000
      [] d = 89998999 -> 89998999
      [] d = 90000000 -> 90000000

Bands == {"normal", "caution", "warning", "critical"}

\* _bands_time_weighted: each interval goes to the band of its earlier point.
_bands_time_weighted(sensor_type, points) ==
    IF Len(points) < 2 THEN [b \in Bands |-> 0]
    ELSE LET acc[i \in 1..Len(points)] ==
                 IF i = 1 THEN [b \in Bands |-> 0]
                 ELSE LET d == dt_ms(points[i].t - points[i - 1].t)
                          bucket == classify_value(sensor_type, points[i - 1].v)
                      IN [acc[i - 1] EXCEPT ![bucket] = @ + (IF d > 0 THEN d ELSE 0)]
         IN acc[Len(points)]

\* summary, lines 255-261: the first point not older than 24 hours before
\* the last one gives delta24; dt24 stays None when the loop finds none.
delta24(points) ==
    LET last == points[Len(points)]
        ref_time == last.t - 24 * HOUR_MS
        I == {i \in 1..Len(points) : points[i].t >= ref_time}
    IN IF I = {} THEN None
       ELSE Some(last.v - points[CHOOSE i \in I : \A j \in I : i <= j].v)

\* summary: None for an empty series (the statistics are not part of the
\* model).
summary(series) ==
    IF series.points = <<>> THEN None
    ELSE Some([bands |-> _bands_time_weighted(series.sensorType, series.points),
               last |-> series.points[Len(series.points)],
               delta24 |-> delta24(series.points)])

\* The start of the bucket of the given width that holds time t.
BinOf(t, width) == t - (t % width)

\* Series.resample(rule): one bin per interval from the bin of the earliest
\* point to the bin of the latest, in index order, empty ones included; vs
\* are the values of the points in the bin, in series order.
resample(points, width) ==
    LET B == {BinOf(points[i].t, width) : i \in 1..Len(points)}
        lo == CHOOSE b \in B : \A c \in B : b <= c
        hi == CHOOSE b \in B : \A c \in B : c <= b
        Take(b) ==
            LET F[i \in 0..Len(points)] ==
                    IF i = 0 THEN <<>>
                    ELSE IF BinOf(points[i].t, width) = b
                         THEN Append(F[i - 1], points[i].v)
                         ELSE F[i - 1]
            IN F[Len(points)]
    IN [k \in 1..((hi - lo) \div width + 1) |->
           LET b == lo + (k - 1) * width
           IN [t |-> b, vs |-> IF b \in B THEN Take(b) ELSE <<>>]]

RECURSIVE SumOf(_)
SumOf(vs) == IF vs = <<>> THEN 0 ELSE vs[1] + SumOf(Tail(vs))

\* The mean, min and max of a bin: NaN for an empty bin.
mean(vs) == IF vs = <<>> THEN None ELSE Some([num |-> SumOf(vs), den |-> Len(vs)])

\* The fraction as a float.
Frac(n, d) == Some([num |-> n, den |-> d])

min(vs) ==
    IF vs = <<>> THEN None
    ELSE Some(CHOOSE v \in {vs[i] : i \in 1..Len(vs)} : \A i \in 1..Len(vs) : v <= vs[i])

max(vs) ==
    IF vs = <<>> THEN None
    ELSE Some(CHOOSE v \in {vs[i] : i \in 1..Len(vs)} : \A i \in 1..Len(vs) : vs[i] <= v)

\* .agg(["mean", "min", "max", "count"]): one row per bin.
agg(bins) ==
    [k \in 1..Len(bins) |->
        [t |-> bins[k].t, mean |-> mean(bins[k].vs), min |-> min(bins[k].vs),
         max |-> max(bins[k].vs), count |-> Len(bins[k].vs)]]

\* DataFrame.dropna(): the rows with no NaN in the given columns.
dropna_keep_all(rows, cols) == rows
dropna(rows, cols) ==
    LET Full(r) == \A c \in cols : r[c] # None IN SelectSeq(rows, Full)

\* aggregate, line 292: the resampling rule of each granularity.
Rule(gran) == CASE gran = "minute" -> MINUTE_MS [] gran = "hour" -> HOUR_MS [] OTHER -> DAY_MS

\* aggregate with ma_window None (the ma column is NaN, reported as None).
aggregate(series, gran) ==
    IF series.points = <<>> THEN <<>>
    ELSE LET rows == dropna(agg(resample(series.points, Rule(gran))), {"mean", "min", "max"})
         IN [i \in 1..Len(rows) |->
                [t |-> rows[i].t, avg |-> rows[i].mean, min |-> rows[i].min,
                 max |-> rows[i].max, count |-> rows[i].count, ma |-> None]]

\* df_t5.join(df_h5, how="inner"): the rows of the bins both frames have,
\* in the order of the left frame.
join_inner(left, right) ==
    LET Shared(l) == \E j \in 1..Len(right) : right[j].t = l.t
        keep == SelectSeq(left, Shared)
    IN [i \in 1..Len(keep) |->
           [t |-> keep[i].t, x |-> keep[i].x,
            y |-> right[CHOOSE j \in 1..Len(right) : right[j].t = keep[i].t].y]]

\* scatter_temp_vs_hum, lines 323-337, on the two series history returned.
scatter_temp_vs_hum(s_temp, s_hum) ==
    IF s_temp = <<>> \/ s_hum = <<>> THEN <<>>
    ELSE LET bt == resample(s_temp, FIVE_MIN_MS)
             bh == resample(s_hum, FIVE_MIN_MS)
             df_t5 == [k \in 1..Len(bt) |-> [t |-> bt[k].t, x |-> mean(bt[k].vs)]]
             df_h5 == [k \in 1..Len(bh) |-> [t |-> bh[k].t, y |-> mean(bh[k].vs)]]
             df == dropna(join_inner(df_t5, df_h5), {"x", "y"})
         IN [i \in 1..Len(df) |-> [x |-> df[i].x, y |-> df[i].y, t |-> df[i].t]]

---------------------------------------------------------------------------
(* The analysis service answering one call, over any series within the     *)
(* bounds.  The pipeline is as _startup leaves it and does not run.        *)

Call(op, sensorType, points, gran, s_temp, s_hum) ==
    [op |-> op, sensorType |-> sensorType, points |-> points, gran |-> gran,
     s_temp |-> s_temp, s_hum |-> s_hum]

AnalysisInit ==
    /\ env = [v \in Required |-> TRUE]
    /\ startup = "ok"
    /\ ingestion_service = TRUE
    /\ f_press = None
    /\ results = TS_FETCH_RESULTS
    /\ channel = <<>>
    /\ sensors = <<>>
    /\ readings = <<>>
    /\ assessments = {}
    /\ task = [tk \in Tasks |-> IF tk = "poll" THEN Locals("fetch") ELSE Locals("idle")]
    /\ timer = 0
    /\ waited = 0
    /\ lastOutcome = "none"
    /\ cancel = "no"
    /\ \/ \E ty \in {"temperature", "humidity"} :
          \E ps \in SeriesOver(Times, PointValues, MaxPoints) :
             request = Some(Call("summary", ty, ps, "", <<>>, <<>>))
       \/ \E g \in {"minute", "hour", "day"} :
          \E ps \in SeriesOver(Times, PointValues, MaxPoints) :
             request = Some(Call("aggregate", "temperature", ps, g, <<>>, <<>>))
       \/ \E a \in SeriesOver(ScatterTimes, {10, 20}, MaxPair) :
          \E b \in SeriesOver(ScatterTimes, {10, 20}, MaxPair) :
             request = Some(Call("scatter", "", <<>>, "", a, b))
    /\ response = None

pipeline == <<env, startup, ingestion_service, f_press, results, channel, sensors, readings,
              assessments, task, timer, waited, lastOutcome, cancel>>

Summarise ==
    /\ request # None /\ request[1].op = "summary" /\ response = None
    /\ response' = Some(summary([sensorType |-> request[1].sensorType,
                                 points |-> request[1].points]))
    /\ UNCHANGED <<request, pipeline>>

Aggregate ==
    /\ request # None /\ request[1].op = "aggregate" /\ response = None
    /\ response' = Some(aggregate([sensorType |-> request[1].sensorType,
                                   points |-> request[1].points], request[1].gran))
    /\ UNCHANGED <<request, pipeline>>

Scatter ==
    /\ request # None /\ request[1].op = "scatter" /\ response = None
    /\ response' = Some(scatter_temp_vs_hum(request[1].s_temp, request[1].s_hum))
    /\ UNCHANGED <<request, pipeline>>

AnalysisNext == Summarise \/ Aggregate \/ Scatter

AnalysisSpec == AnalysisInit /\ [][AnalysisNext]_vars

---------------------------------------------------------------------------
(* Time-weighted bands, the 24-hour delta, aggregation and the scatter *)

\* The call answered, when it is one of op.
Answered(op) == request # None /\ response # None /\ request[1].op = op

\* The time between consecutive points whose earlier point is in band b.
RECURSIVE Elapsed(_, _, _)
Elapsed(ty, ps, b) ==
    IF Len(ps) < 2 THEN 0
    ELSE (IF classify_value(ty, ps[1].v) = b THEN ps[2].t - ps[1].t ELSE 0)
         + Elapsed(ty, Tail(ps), b)

\* C17: for a series of two or more points, each band's total is the time
\* between the consecutive pairs whose earlier point lies in that band, and
\* the four totals add up to the time from the first point to the last; for
\* a single point all four are zero.
C17_BandTotals ==
    (Answered("summary") /\ request[1].points # <<>>) =>
        LET ps == request[1].points
            bands == response[1][1].bands
        IN /\ \A b \in Bands : bands[b] = Elapsed(request[1].sensorType, ps, b)
           /\ bands["normal"] + bands["caution"] + bands["warning"] + bands["critical"]
                 = ps[Len(ps)].t - ps[1].t

\* C17 without the totals' exactness: every interval is credited to the band
\* of its earlier point and to no other.
C17_Attribution ==
    (Answered("summary") /\ request[1].points # <<>>) =>
        \A b \in Bands :
            (response[1][1].bands[b] > 0) <=> (Elapsed(request[1].sensorType, request[1].points, b) > 0)

\* C18: when every point of a non-empty series is less than 24 hours older
\* than the last one, summary reports no 24-hour delta.
C18_DeltaAbsentUnder24h ==
    (/\ Answered("summary")
     /\ request[1].points # <<>>
     /\ \A i \in 1..Len(request[1].points) :
           request[1].points[Len(request[1].points)].t - request[1].points[i].t < 24 * HOUR_MS)
    => response[1][1].delta24 = None

\* What summary does report for a non-empty series: a number always.
C18_DeltaAlwaysNumber ==
    (Answered("summary") /\ request[1].points # <<>>) => response[1][1].delta24 # None

\* The points of ps in the bucket that starts at b.
InBucket(ps, b, width) == {i \in 1..Len(ps) : BinOf(ps[i].t, width) = b}

\* The sum of ps[i].v over the positions I.
RECURSIVE SumAt(_, _)
SumAt(ps, I) ==
    IF I = {} THEN 0 ELSE LET i == CHOOSE j \in I : TRUE IN ps[i].v + SumAt(ps, I \ {i})

\* C19: the buckets of an aggregation are exactly the fixed-width intervals
\* that hold a point, in ascending order, each with the count, mean, min and
\* max of its points; no bucket is empty and the counts add up to the number
\* of points.
C19_Aggregate ==
    Answered("aggregate") =>
        LET ps == request[1].points
            w == Rule(request[1].gran)
            bs == response[1]
        IN /\ {bs[k].t : k \in 1..Len(bs)} = {BinOf(ps[i].t, w) : i \in 1..Len(ps)}
           /\ \A k \in 2..Len(bs) : bs[k - 1].t < bs[k].t
           /\ \A k \in 1..Len(bs) :
                 LET I == InBucket(ps, bs[k].t, w) IN
                 /\ bs[k].count >= 1
                 /\ bs[k].count = Cardinality(I)
                 /\ bs[k].avg = Frac(SumAt(ps, I), Cardinality(I))
                 /\ \E i \in I : bs[k].min = Some(ps[i].v)
                 /\ \E i \in I : bs[k].max = Some(ps[i].v)
                 /\ \A i \in I : bs[k].min[1] <= ps[i].v /\ ps[i].v <= bs[k].max[1]
           /\ SumOf([k \in 1..Len(bs) |-> bs[k].count]) = Len(ps)

\* The example of C19: 00:00 -> 10, 00:30 -> 20, 01:10 -> 30 by the hour is
\* [00:00, mean 15, count 2] and [01:00, mean 30, count 1].
C19_Witness ==
    /\ Answered("aggregate")
    /\ request[1].gran = "hour"
    /\ request[1].points = <<Point(0, 10), Point(1800000, 20), Point(4200000, 30)>>
    /\ Len(response[1]) = 2
    /\ response[1][1].t = 0 /\ response[1][1].count = 2
    /\ response[1][1].avg[1].num = 15 * response[1][1].avg[1].den
    /\ response[1][2].t = HOUR_MS /\ response[1][2].count = 1
    /\ response[1][2].avg[1].num = 30 * response[1][2].avg[1].den

\* C20: the pairs of a scatter are exactly the 5-minute buckets in which both
\* series have a point, each once, with the two series' means over it.
C20_ScatterPairs ==
    Answered("scatter") =>
        LET a == request[1].s_temp
            b == request[1].s_hum
            pairs == response[1]
        IN /\ {pairs[k].t : k \in 1..Len(pairs)}
                 = {BinOf(a[i].t, FIVE_MIN_MS) : i \in 1..Len(a)}
                      \cap {BinOf(b[i].t, FIVE_MIN_MS) : i \in 1..Len(b)}
           /\ \A k \in 2..Len(pairs) : pairs[k - 1].t < pairs[k].t
           /\ \A k \in 1..Len(pairs) :
                 LET I == InBucket(a, pairs[k].t, FIVE_MIN_MS)
                     J == InBucket(b, pairs[k].t, FIVE_MIN_MS)
                 IN /\ pairs[k].x = Frac(SumAt(a, I), Cardinality(I))
                    /\ pairs[k].y = Frac(SumAt(b, J), Cardinality(J))

\* Temperature has points at 00:00 and 01:10, humidity at 00:30 and 01:10:
\* the bucket of 00:30 lies inside both series' spans with humidity alone in
\* it, 00:00 has temperature alone, and the only pair is that of 01:10.
C20_Witness ==
    /\ Answered("scatter")
    /\ {request[1].s_temp[i].t : i \in 1..Len(request[1].s_temp)} = {0, 4200000}
    /\ {request[1].s_hum[i].t : i \in 1..Len(request[1].s_hum)} = {1800000, 4200000}
    /\ Len(response[1]) = 1
    /\ response[1][1].t = 4200000


---------------------------------------------------------------------------
(* AnalysisService.monthly_series (analysis/services.py:340-401).  Here a  *)
(* time is a calendar datetime to the hour, written as the number          *)
(* yyyymmddhh, which orders as the datetimes do.                           *)

Date(y, m, d, h) == ((y * 100 + m) * 100 + d) * 100 + h
year(t) == t \div 1000000
month(t) == (t \div 10000) % 100
DayOf(t) == t \div 100

month_labels == <<"Jan", "Fev", "Mar", "Abr", "Mai", "Jun", "Jul", "Ago", "Set", "Out", "Nov", "Dez">>

\* range(a, b + 1) as a list.
Range(a, b) == [i \in 1..(b - a + 1) |-> a + i - 1]

\* sorted(set(years)) of the digit tokens of years_csv; a token is Some(n)
\* when it is all digits and None otherwise.
SortedYears(tokens) ==
    LET S == {tokens[i][1] : i \in {j \in 1..Len(tokens) : tokens[j] # None}}
        InS(y) == y \in S
    IN IF S = {} THEN <<>>
       ELSE SelectSeq(Range(CHOOSE a \in S : \A b \in S : a <= b,
                            CHOOSE a \in S : \A b \in S : b <= a), InS)

\* The $match on the time window and the $limit of _readings_adapter, over
\* the readings of the silo's sensors of the type in ascending time.
Window(points, start, end, limit) ==
    LET In(p) == p.t >= start /\ p.t <= end
        rows == SelectSeq(points, In)
    IN SubSeq(rows, 1, IF Len(rows) <= limit THEN Len(rows) ELSE limit)

\* df["v"].resample("1D").mean(): the mean of each day that has a point
\* (the days between that have none are NaN and drop out of the monthly mean).
daily(points) ==
    [d \in {DayOf(points[i].t) : i \in 1..Len(points)} |->
        LET On(p) == DayOf(p.t) = d
            ps == SelectSeq(points, On)
        IN mean([i \in 1..Len(ps) |-> ps[i].v])[1]]

\* The mean of the fractions f[d], d in D, as one fraction.
RECURSIVE SumFrac(_, _)
SumFrac(f, D) ==
    IF D = {} THEN [num |-> 0, den |-> 1]
    ELSE LET d == CHOOSE x \in D : TRUE
             r == SumFrac(f, D \ {d})
         IN [num |-> r.num * f[d].den + f[d].num * r.den, den |-> r.den * f[d].den]

\* daily.groupby([year, month]).mean(): one entry per calendar month from
\* that of the first day to that of the last; NaN for a month without a point.
groupby_month(points) ==
    LET dm == daily(points)
        Idx(t) == year(t) * 12 + month(t) - 1
        lo == Idx(points[1].t)
        hi == Idx(points[Len(points)].t)
    IN [k \in {<<i \div 12, (i % 12) + 1>> : i \in lo..hi} |->
           LET D == {d \in DOMAIN dm : d \div 100 = k[1] * 100 + k[2]}
               s == SumFrac(dm, D)
           IN IF D = {} THEN None ELSE Frac(s.num, s.den * Cardinality(D))]

\* float(round(x, 2)), in hundredths (no mean of the model lies half-way).
round2(f) == (200 * f.num + f.den) \div (2 * f.den)

\* Lines 396-397: the cell of year y and month m.
Cell_nan_as_zero(grp, y, m) ==
    IF <<y, m>> \notin DOMAIN grp THEN None
    ELSE IF grp[<<y, m>>] = None THEN Some(0) ELSE Some(round2(grp[<<y, m>>][1]))

Cell(grp, y, m) ==
    IF <<y, m>> \notin DOMAIN grp \/ grp[<<y, m>>] = None THEN None
    ELSE Some(round2(grp[<<y, m>>][1]))

\* Lines 351-369: the target years and the window of the history query.
ResolveYears(years_csv, start, end, last_years, this_year) ==
    IF years_csv # None
    THEN LET years == SortedYears(years_csv[1])
         IN IF years = <<>> THEN [years |-> years, start |-> 0, end |-> 0]
            ELSE [years |-> years,
                  start |-> Date(years[1], 1, 1, 0),
                  end |-> Date(years[Len(years)], 12, 31, 23)]
    ELSE IF start # None /\ end # None
    THEN [years |-> Range(year(start[1]), year(end[1])), start |-> start[1], end |-> end[1]]
    ELSE LET n == IF last_years = None THEN 3 ELSE last_years[1]
             years == Range(this_year - n + 1, this_year)
         IN [years |-> years,
             start |-> Date(years[1], 1, 1, 0),
             end |-> Date(years[Len(years)], 12, 31, 23)]

monthly_series(stored, years_csv, start, end, last_years, limit, this_year) ==
    LET w == ResolveYears(years_csv, start, end, last_years, this_year)
        Y == {w.years[i] : i \in 1..Len(w.years)}
        points == Window(stored, w.start, w.end, limit)
    IN IF years_csv # None /\ w.years = <<>> THEN [years |-> <<>>, rows |-> <<>>]
       ELSE IF points = <<>>
       THEN [years |-> w.years,
             rows |-> [m \in 1..12 |->
                          [month |-> m, label |-> month_labels[m], cells |-> [y \in Y |-> None]]]]
       ELSE LET grp == groupby_month(points)
            IN [years |-> w.years,
                rows |-> [m \in 1..12 |->
                             [month |-> m, label |-> month_labels[m],
                              cells |-> [y \in Y |-> Cell(grp, y, m)]]]]

\* 10 Jan 2023 at 00h and 12h, 20 Jan 2023, 5 Mar 2023 and 1 Feb 2024.
MonthlyTimes == {Date(2023, 1, 10, 0), Date(2023, 1, 10, 12), Date(2023, 1, 20, 0),
                 Date(2023, 3, 5, 0), Date(2024, 2, 1, 0)}

\* The years parameter: absent, "2023,2024", "2024,x,2023,2024", "2023" and "x".
YearLists == {None, Some(<<Some(2023), Some(2024)>>),
              Some(<<Some(2024), None, Some(2023), Some(2024)>>),
              Some(<<Some(2023)>>), Some(<<None>>)}

\* The start and end parameters, and last (1..10 at the router, default 3).
SpanTimes == {None, Some(Date(2023, 1, 15, 0)), Some(Date(2024, 1, 1, 0))}
LastYears == {None, Some(1), Some(2)}
LIMIT_DEFAULT == 300000

MonthlyCall(points, years_csv, start, end, last_years, limit, this_year) ==
    [op |-> "monthly", points |-> points, years_csv |-> years_csv, start |-> start,
     end |-> end, last_years |-> last_years, limit |-> limit, this_year |-> this_year]

MonthlyRequests ==
    \E ps \in SeriesOver(MonthlyTimes, {10, 20}, MaxPoints) :
    \E limit \in {2, LIMIT_DEFAULT} :
       \/ \E ys \in YearLists \ {None} :
             request = Some(MonthlyCall(ps, ys, None, None, None, limit, 2024))
       \/ \E s \in SpanTimes : \E e \in SpanTimes : \E n \in LastYears :
             /\ s # None /\ e # None => n = None
             /\ request = Some(MonthlyCall(ps, None, s, e, n, limit, 2024))

Monthly ==
    /\ request # None /\ request[1].op = "monthly" /\ response = None
    /\ response' = Some(monthly_series(request[1].points, request[1].years_csv,
                                       request[1].start, request[1].end,
                                       request[1].last_years, request[1].limit,
                                       request[1].this_year))
    /\ UNCHANGED <<request, pipeline>>

---------------------------------------------------------------------------
(* AnalysisService.compare_specific_days (analysis/services.py:404-455).   *)
(* Here a time is the minutes after Monday 2025-09-29T00:00, and an offset *)
(* from a centre date is in minutes.                                       *)

DAY_MIN == 1440

\* DatetimeIndex.weekday: Monday is 0.
weekday(t) == (t \div DAY_MIN) % 7

\* Line 418: the resampling step of each granularity, in minutes.
StepMinutes(gran) == IF gran = "5min" THEN 5 ELSE 60

\* Lines 422-426: pd.date_range from -window_h hours to +window_h hours by
\* the step, as offsets.
rel_axis(gran, window_h) ==
    [i \in 1..((2 * window_h * 60) \div StepMinutes(gran) + 1) |->
        (i - 1) * StepMinutes(gran) - window_h * 60]

\* Series.resample(step).mean() over a TimedeltaIndex: the bins are
\* left-closed, labelled by their left edge and start at the smallest offset
\* (TimeGrouper._get_time_delta_bins), not at a multiple of the step.
resample_timedelta(rows, step) ==
    IF rows = <<>> THEN <<>>
    ELSE LET first == rows[1].rel
             last == rows[Len(rows)].rel
         IN [b \in {first + k * step : k \in 0..((last - first) \div step)} |->
                LET In(r) == b <= r.rel /\ r.rel < b + step
                    rs == SelectSeq(rows, In)
                IN mean([i \in 1..Len(rs) |-> rs[i].v])]

\* Series.reindex(axis): the value at each label of the axis, NaN where the
\* series has no such label.
reindex_fill(df, axis) ==
    [i \in 1..Len(axis) |->
        IF axis[i] \in DOMAIN df THEN df[axis[i]]
        ELSE IF df = <<>> THEN None
        ELSE df[CHOOSE b \in DOMAIN df : \A c \in DOMAIN df : b <= c]]

reindex(df, axis) ==
    [i \in 1..Len(axis) |-> IF axis[i] \in DOMAIN df THEN df[axis[i]] ELSE None]

\* Lines 429-450 for one date that parsed: center is its datetime.
aligned_values(stored, center, gran, window_h, wd, limit) ==
    LET axis == rel_axis(gran, window_h)
        points == Window(stored, center - window_h * 60, center + window_h * 60, limit)
        Keep(p) == wd = None \/ weekday(p.t) = wd[1]
        kept == SelectSeq(points, Keep)
        rows == [i \in 1..Len(kept) |-> [rel |-> kept[i].t - center, v |-> kept[i].v]]
        al == reindex(resample_timedelta(rows, StepMinutes(gran)), axis)
    IN IF points = <<>> THEN [i \in 1..Len(axis) |-> None]
       ELSE [i \in 1..Len(axis) |-> IF al[i] = None THEN None ELSE Some(round2(al[i][1]))]

\* Line 453: the labels of the axis.
relHours(gran, window_h) ==
    LET n == Len(rel_axis(gran, window_h)) IN [i \in 1..n |-> (i - 1) - (n \div 2)]

\* iso_dates is the list of requested dates: Some(center) for a string
\* pd.to_datetime parses, None for one it rejects (skipped, line 432).
compare_specific_days(stored, sensor_type, iso_dates, gran, window_h, wd, limit) ==
    LET Parsed(s) == s # None
        dates == SelectSeq(iso_dates, Parsed)
    IN [sensorType |-> sensor_type,
        relHours |-> relHours(gran, window_h),
        series |-> [k \in 1..Len(dates) |->
                       [label |-> dates[k],
                        values |-> aligned_values(stored, dates[k][1], gran, window_h, wd, limit)]]]

\* Wednesday 2025-10-01 and Thursday 2025-10-02.
D1 == 2 * DAY_MIN
D2 == 3 * DAY_MIN

\* One hour before D1, two minutes later, five minutes after D1, one hour
\* after D1, and D2 itself.
CompareTimes == {D1 - 60, D1 - 58, D1 + 5, D1 + 60, D2}

DateLists == {<<Some(D1)>>, <<Some(D1), Some(D2)>>, <<Some(D2), None, Some(D1)>>}
WindowHours == {1, 2}
Weekdays == {None, Some(2)}

CompareCall(points, sensor_type, iso_dates, gran, window_h, wd, limit) ==
    [op |-> "compare", points |-> points, sensorType |-> sensor_type,
     iso_dates |-> iso_dates, gran |-> gran, window_h |-> window_h,
     weekday |-> wd, limit |-> limit]

CompareRequests ==
    \E ps \in SeriesOver(CompareTimes, {10, 20}, MaxPoints) :
    \E ds \in DateLists : \E g \in {"5min", "hour"} :
    \E w \in WindowHours : \E wd \in Weekdays :
       request = Some(CompareCall(ps, "temperature", ds, g, w, wd, LIMIT_DEFAULT))

Compare ==
    /\ request # None /\ request[1].op = "compare" /\ response = None
    /\ response' = Some(compare_specific_days(request[1].points, request[1].sensorType,
                                              request[1].iso_dates, request[1].gran,
                                              request[1].window_h, request[1].weekday,
                                              request[1].limit))
    /\ UNCHANGED <<request, pipeline>>

\* The analysis service answering one monthly or specific-days call over any
\* stored series within the bounds; the pipeline does not run.
SeasonInit ==
    /\ env = [v \in Required |-> TRUE]
    /\ startup = "ok"
    /\ ingestion_service = TRUE
    /\ f_press = None
    /\ results = TS_FETCH_RESULTS
    /\ channel = <<>>
    /\ sensors = <<>>
    /\ readings = <<>>
    /\ assessments = {}
    /\ task = [tk \in Tasks |-> IF tk = "poll" THEN Locals("fetch") ELSE Locals("idle")]
    /\ timer = 0
    /\ waited = 0
    /\ lastOutcome = "none"
    /\ cancel = "no"
    /\ (MonthlyRequests \/ CompareRequests)
    /\ response = None

SeasonNext == Monthly \/ Compare

SeasonSpec == SeasonInit /\ [][SeasonNext]_vars

\* The readings of request year y, month m, as stored.
ReadingsIn(y, m) ==
    {i \in 1..Len(request[1].points) :
        year(request[1].points[i].t) = y /\ month(request[1].points[i].t) = m}

\* C21: whenever a target year set is resolved, monthly_series returns 12
\* rows, months 1..12 in order, each with exactly one cell per target year,
\* and the cell of a (year, month) without readings is null, never a number.
C21_MonthlyMatrix ==
    Answered("monthly") /\ ~(request[1].years_csv # None /\ response[1].years = <<>>) =>
        LET years == response[1].years
            rows == response[1].rows
        IN /\ Len(rows) = 12
           /\ \A m \in 1..12 :
                 /\ rows[m].month = m
                 /\ DOMAIN rows[m].cells = {years[i] : i \in 1..Len(years)}
                 /\ \A y \in DOMAIN rows[m].cells :
                       ReadingsIn(y, m) = {} => rows[m].cells[y] = None

\* The example of C21: years "2023,2024", readings in January and March 2023
\* and none in February 2023: the cell of February 2023 is null between two
\* cells that carry a mean.
C21_Witness ==
    /\ Answered("monthly")
    /\ request[1].years_csv = Some(<<Some(2023), Some(2024)>>)
    /\ ReadingsIn(2023, 1) # {} /\ ReadingsIn(2023, 2) = {} /\ ReadingsIn(2023, 3) # {}
    /\ response[1].years = <<2023, 2024>>
    /\ response[1].rows[1].cells[2023] # None
    /\ response[1].rows[2].cells[2023] = None
    /\ response[1].rows[3].cells[2023] # None

\* The stored samples whose offset from center lies in the bin of width step
\* that starts at offset b.
SamplesAt(center, b, step) ==
    {i \in 1..Len(request[1].points) :
        /\ b <= request[1].points[i].t - center
        /\ request[1].points[i].t - center < b + step}

\* C22: compare_specific_days returns one value array for every requested
\* date, in order, each as long as the shared relative axis, and the value of
\* a relative bin that holds no stored sample is null.
C22_AlignedArrays ==
    Answered("compare") =>
        LET Parsed(s) == s # None
            dates == SelectSeq(request[1].iso_dates, Parsed)
            step == IF request[1].gran = "5min" THEN 5 ELSE 60
            series == response[1].series
            n == Len(response[1].relHours)
        IN /\ Len(series) = Len(dates)
           /\ \A k \in 1..Len(series) :
                 /\ series[k].label = dates[k]
                 /\ Len(series[k].values) = n
                 /\ \A j \in 1..n :
                       SamplesAt(dates[k][1], (j - 1) * step - request[1].window_h * 60, step) = {}
                          => series[k].values[j] = None

\* Two dates by the hour with a window of one hour; the store has a sample
\* one hour before the first date and none in its hour 0: the first array
\* has a value in its first bin and null in its second, and both arrays have
\* the three entries of the axis.
C22_Witness ==
    /\ Answered("compare")
    /\ request[1].gran = "hour" /\ request[1].window_h = 1
    /\ request[1].iso_dates = <<Some(D1), Some(D2)>>
    /\ SamplesAt(D1, -60, 60) # {} /\ SamplesAt(D1, 0, 60) = {}
    /\ Len(response[1].series) = 2
    /\ Len(response[1].series[1].values) = 3 /\ Len(response[1].series[2].values) = 3
    /\ response[1].series[1].values[1] # None
    /\ response[1].series[1].values[2] = None

\* C23: the labels of the relative axis are the offsets in hours of the bins
\* from the centre date, from -W to +W, for the hourly and the 5-minute step.
C23_LabelsInHours ==
    Answered("compare") =>
        LET labels == response[1].relHours
            step == IF request[1].gran = "5min" THEN 5 ELSE 60
        IN /\ labels[1] = -request[1].window_h
           /\ labels[Len(labels)] = request[1].window_h
           /\ \A j \in 1..Len(labels) :
                 labels[j] * 60 = (j - 1) * step - request[1].window_h * 60

\* C23 for the hourly step alone, where the labels are the offsets in hours.
C23_HourlyLabels ==
    Answered("compare") /\ request[1].gran = "hour" =>
        LET labels == response[1].relHours
        IN /\ labels[1] = -request[1].window_h
           /\ labels[Len(labels)] = request[1].window_h
           /\ \A j \in 1..Len(labels) :
                 labels[j] * 60 = (j - 1) * 60 - request[1].window_h * 60

\* With the 5-minute step and a window of one hour the labels run from -12
\* to 12: the bin index from the centre, not hours.
C23_FiveMinuteLabels ==
    /\ Answered("compare")
    /\ request[1].gran = "5min" /\ request[1].window_h = 1
    /\ Len(response[1].relHours) = 25
    /\ response[1].relHours[1] = -12
    /\ response[1].relHours[25] = 12

---------------------------------------------------------------------------
(* The history, aggregate and scatter endpoints over a database that holds *)
(* sensors and readings (analysis/router.py:79-141).  The collections are  *)
(* shared with the other writers of the deployment, so the store is any    *)
(* list of readings of the silo's sensors; the pipeline does not run.      *)

\* The points of a series with their times in milliseconds.
Millis(points) == [i \in 1..Len(points) |-> Point(points[i].t * MINUTE_MS, points[i].v)]

SensorLists == {<<>>, <<"temperature">>, <<"humidity">>, <<"temperature", "humidity">>}
StoredTimes == {0, 2, 70}
WindowStarts == {None, Some(1), Some(100)}
WindowEnds == {None, Some(1)}

Query(op, sensorType, start, end, limit, gran) ==
    [op |-> op, sensorType |-> sensorType, start |-> start, end |-> end,
     limit |-> limit, gran |-> gran]

QueryInit ==
    /\ env = [v \in Required |-> TRUE]
    /\ startup = "ok"
    /\ ingestion_service = TRUE
    /\ f_press = None
    /\ results = TS_FETCH_RESULTS
    /\ channel = <<>>
    /\ sensors \in SensorLists
    /\ readings \in SeqsUpTo([sensor : 1..Len(sensors), ts : StoredTimes, value : {10, 20}],
                             MaxPair)
    /\ assessments = {}
    /\ task = [tk \in Tasks |-> IF tk = "poll" THEN Locals("fetch") ELSE Locals("idle")]
    /\ timer = 0
    /\ waited = 0
    /\ lastOutcome = "none"
    /\ cancel = "no"
    /\ \E s \in WindowStarts : \E e \in WindowEnds :
          \/ \E ty \in {"temperature", "humidity"} :
                request = Some(Query("history", ty, s, e, LIMIT_DEFAULT, ""))
          \/ \E ty \in {"temperature", "humidity"} : \E g \in {"minute", "hour"} :
                request = Some(Query("aggregate", ty, s, e, LIMIT_DEFAULT, g))
          \/ request = Some(Query("scatter", "", s, e, LIMIT_DEFAULT, ""))
    /\ response = None

\* get_history_query.
QueryHistory ==
    /\ request # None /\ request[1].op = "history" /\ response = None
    /\ response' = Some(history(request[1].sensorType, request[1].start, request[1].end,
                                request[1].limit))
    /\ UNCHANGED <<request, pipeline>>

\* get_aggregate: history, then aggregate over the series.
QueryAggregate ==
    /\ request # None /\ request[1].op = "aggregate" /\ response = None
    /\ \E ps \in {history(request[1].sensorType, request[1].start, request[1].end,
                          request[1].limit)} :
          response' = Some(aggregate([sensorType |-> request[1].sensorType,
                                      points |-> Millis(ps)], request[1].gran))
    /\ UNCHANGED <<request, pipeline>>

\* get_scatter: scatter_temp_vs_hum reads the two histories itself.
QueryScatter ==
    /\ request # None /\ request[1].op = "scatter" /\ response = None
    /\ \E a \in {history("temperature", request[1].start, request[1].end, request[1].limit)} :
       \E b \in {history("humidity", request[1].start, request[1].end, request[1].limit)} :
          response' = Some(scatter_temp_vs_hum(Millis(a), Millis(b)))
    /\ UNCHANGED <<request, pipeline>>

QueryNext == QueryHistory \/ QueryAggregate \/ QueryScatter

QuerySpec == QueryInit /\ [][QueryNext]_vars

\* No sensor of the silo has the type, or no reading of such a sensor lies in
\* the window of the request.
NoData(sensor_type) ==
    \A j \in 1..Len(readings) :
        \/ readings[j].sensor \notin 1..Len(sensors)
        \/ sensors[readings[j].sensor] # sensor_type
        \/ request[1].start # None /\ readings[j].ts < request[1].start[1]
        \/ request[1].end # None /\ readings[j].ts > request[1].end[1]

\* C24: without a matching sensor or without a reading in the window, history
\* answers an empty series, aggregate an empty bucket list and scatter an
\* empty pair list.
C24_EmptyNotError ==
    /\ Answered("history") /\ NoData(request[1].sensorType) => response[1] = <<>>
    /\ Answered("aggregate") /\ NoData(request[1].sensorType) => response[1] = <<>>
    /\ Answered("scatter") /\ (NoData("temperature") \/ NoData("humidity")) => response[1] = <<>>

\* An aggregate over a store whose temperature readings all lie after the end
\* of the window: the sensor exists, the answer is the empty bucket list.
C24_Witness ==
    /\ Answered("aggregate")
    /\ request[1].sensorType = "temperature"
    /\ request[1].end = Some(1)
    /\ \E j \in 1..Len(readings) : sensors[readings[j].sensor] = "temperature" /\ readings[j].ts = 70
    /\ NoData("temperature")
    /\ response[1] = <<>>

---------------------------------------------------------------------------
(* The classifiers: classify_value of analysis/thresholds.py, the status   *)
(* classifiers of IngestService and the status and notes of the snapshot   *)
(* sync_all builds (services.py:206-248), each applied to given values.    *)

\* The default thresholds of IngestService.__init__ (lines 44-51).
h_ok_max == 13
h_adm_max == 14
h_crit_min == 16
t_ok_max == 15
t_alert == 20
t_crit == 30
t_vhigh == 40

\* _hum_status with the second and third comparisons exchanged.
_hum_status_swapped(hum) ==
    IF hum < h_ok_max THEN "OK"
    ELSE IF hum <= h_adm_max THEN "ALERTA"
    ELSE IF hum <= h_crit_min THEN "ATENÇÃO"
    ELSE "CRÍTICO"

_hum_status(hum) ==
    IF hum < h_ok_max THEN "OK"
    ELSE IF hum <= h_adm_max THEN "ATENÇÃO"
    ELSE IF hum <= h_crit_min THEN "ALERTA"
    ELSE "CRÍTICO"

_temp_status(t) ==
    IF t < t_ok_max THEN "OK"
    ELSE IF t < t_alert THEN "ATENÇÃO"
    ELSE IF t <= t_crit THEN "ALERTA"
    ELSE "CRÍTICO"

\* _aeration_advice: the label of the recommended flow.
_aeration_advice(hum) ==
    IF hum = None THEN "Sem recomendação (umidade indisponível)"
    ELSE IF hum[1] < 13 THEN "Aeração leve"
    ELSE IF 13 <= hum[1] /\ hum[1] <= 15 THEN "Aeração moderada"
    ELSE "Aeração intensiva"

NOTE_HUM_CRIT == "Umidade crítica: iniciar aeração intensiva e/ou secagem."
NOTE_HUM_HIGH == "Umidade acima do ideal: aeração moderada a intensiva."
NOTE_TEMP_VHIGH == "Temperatura muito alta (>40°C): risco severo de fungos."
NOTE_TEMP_HIGH == "Temperatura alta (>30°C): risco de fungos/insetos."

\* Lines 243-248: the notes of the snapshot, in the order they are appended.
notes(temp, hum) ==
    (IF hum = None THEN <<>>
     ELSE IF hum[1] >= h_crit_min THEN <<NOTE_HUM_CRIT>>
     ELSE IF hum[1] > h_adm_max THEN <<NOTE_HUM_HIGH>>
     ELSE <<>>)
    \o
    (IF temp = None THEN <<>>
     ELSE IF temp[1] > t_vhigh THEN <<NOTE_TEMP_VHIGH>>
     ELSE IF temp[1] > t_crit THEN <<NOTE_TEMP_HIGH>>
     ELSE <<>>)

\* Lines 214-240: the status, aeration and notes of the snapshot built from
\* the last accepted temperature, humidity and pressure.
assessment_doc(temp, hum, pres) ==
    [temp |-> temp, hum |-> hum, pressure |-> pres,
     status |-> [temperature |-> IF temp # None THEN _temp_status(temp[1]) ELSE "N/A",
                 humidity |-> IF hum # None THEN _hum_status(hum[1]) ELSE "N/A",
                 pressure |-> IF pres = None THEN "N/A" ELSE "OK",
                 co2 |-> "N/A"],
     aeration |-> _aeration_advice(hum),
     notes |-> notes(temp, hum)]

\* The values the classifiers are applied to: every whole value around the
\* thresholds of each type.
ClassifyValues(ty) ==
    CASE lower(ty) = "humidity" -> 0..20
      [] lower(ty) = "temperature" -> 0..45
      [] lower(ty) = "co2" -> {0, 399, 400, 401, 599, 600, 601, 1099, 1100, 1101, 4999, 5000, 5001}
      [] OTHER -> {0, 900, 1013}

ClassifyTypes == {"humidity", "temperature", "co2", "pressure", "TEMPERATURE"}

StatusValues(ty) == IF ty = "humidity" THEN 12..17 ELSE {14, 15, 19, 20, 30, 31}

\* The ascending lists of four values.
Chains(V) == {c \in [1..4 -> V] : \A i \in 1..3 : c[i] <= c[i + 1]}

SnapshotTemps == {None, Some(10), Some(30), Some(31), Some(40), Some(41)}
SnapshotHums == {None} \cup {Some(v) : v \in 12..17}

ClassifyInit ==
    /\ env = [v \in Required |-> TRUE]
    /\ startup = "ok"
    /\ ingestion_service = TRUE
    /\ f_press = None
    /\ results = TS_FETCH_RESULTS
    /\ channel = <<>>
    /\ sensors = <<>>
    /\ readings = <<>>
    /\ assessments = {}
    /\ task = [tk \in Tasks |-> IF tk = "poll" THEN Locals("fetch") ELSE Locals("idle")]
    /\ timer = 0
    /\ waited = 0
    /\ lastOutcome = "none"
    /\ cancel = "no"
    /\ \/ \E ty \in ClassifyTypes : \E v \in ClassifyValues(ty) :
             request = Some([op |-> "classify", sensorType |-> ty, v |-> v])
       \/ \E ty \in {"humidity", "temperature"} : \E c \in Chains(StatusValues(ty)) :
             request = Some([op |-> "status", sensorType |-> ty, vs |-> c])
       \/ \E t \in SnapshotTemps : \E h \in SnapshotHums :
             request = Some([op |-> "snapshot", temp |-> t, hum |-> h])
    /\ response = None

Classify ==
    /\ request # None /\ request[1].op = "classify" /\ response = None
    /\ response' = Some(classify_value(request[1].sensorType, request[1].v))
    /\ UNCHANGED <<request, pipeline>>

Status ==
    /\ request # None /\ request[1].op = "status" /\ response = None
    /\ response' = Some([i \in 1..4 |->
                            IF request[1].sensorType = "humidity"
                            THEN _hum_status(request[1].vs[i])
                            ELSE _temp_status(request[1].vs[i])])
    /\ UNCHANGED <<request, pipeline>>

Snapshot ==
    /\ request # None /\ request[1].op = "snapshot" /\ response = None
    /\ response' = Some(assessment_doc(request[1].temp, request[1].hum, None))
    /\ UNCHANGED <<request, pipeline>>

ClassifyNext == Classify \/ Status \/ Snapshot

ClassifySpec == ClassifyInit /\ [][ClassifyNext]_vars

Severity(s) == CASE s = "OK" -> 0 [] s = "ATENÇÃO" -> 1 [] s = "ALERTA" -> 2 [] OTHER -> 3

\* C26: with the default thresholds the status of a higher temperature or
\* humidity is never less severe (OK < ATENÇÃO < ALERTA < CRÍTICO), and each
\* of the four statuses is the status of some value: of 12, 13, 15 and 17 %
\* and of 14, 15, 20 and 31 degrees.
C26_StatusMonotone ==
    Answered("status") =>
        /\ \A i \in 1..3 : Severity(response[1][i]) <= Severity(response[1][i + 1])
        /\ request[1].sensorType = "humidity" /\ request[1].vs = <<12, 13, 15, 17>>
              => response[1] = <<"OK", "ATENÇÃO", "ALERTA", "CRÍTICO">>
        /\ request[1].sensorType = "temperature" /\ request[1].vs = <<14, 15, 20, 31>>
              => response[1] = <<"OK", "ATENÇÃO", "ALERTA", "CRÍTICO">>

C26_Witness ==
    /\ Answered("status")
    /\ request[1].sensorType = "humidity"
    /\ request[1].vs = <<12, 14, 16, 17>>
    /\ response[1] = <<"OK", "ATENÇÃO", "ALERTA", "CRÍTICO">>

\* C30: in every snapshot the critical-humidity note is present exactly when
\* the humidity status is CRÍTICO, the threshold value included.
C30_NoteAgreesWithStatus ==
    Answered("snapshot") =>
        ((\E i \in 1..Len(response[1].notes) : response[1].notes[i] = NOTE_HUM_CRIT)
            <=> response[1].status.humidity = "CRÍTICO")

\* The note and the status agree for every humidity but the threshold.
C30_AgreeOffThreshold ==
    Answered("snapshot") /\ request[1].hum # Some(h_crit_min) =>
        ((\E i \in 1..Len(response[1].notes) : response[1].notes[i] = NOTE_HUM_CRIT)
            <=> response[1].status.humidity = "CRÍTICO")

\* A humidity of exactly 16: status ALERTA with the critical note.
C30_AtThreshold ==
    /\ Answered("snapshot")
    /\ request[1].hum = Some(16)
    /\ response[1].status.humidity = "ALERTA"
    /\ response[1].notes[1] = NOTE_HUM_CRIT

---------------------------------------------------------------------------
(* What a returned _sync_one has stored, and the count it reports *)

Returned == {c \in Written : c.ret # None /\ c.feeds # <<>>}

\* C27: when _sync_one returns normally for a non-empty batch, every sample
\* its spike filter accepted is in the readings collection under its
\* (sensor, timestamp) key.
C27_AcceptedAreStored ==
    \A c \in Returned :
        \A i \in 1..Len(Cleaned(c)) :
            Docs(Cleaned(c)[i].sensor_id, Cleaned(c)[i].ts) # {}

\* C28: the stored count a _sync_one returns is the number of accepted
\* readings it submitted, whether or not their keys existed already: a run
\* that found its sensor (so a second run over the batch) reports the count
\* the first run reported.
C28_StoredCountsAttempts ==
    \A c \in Returned : c.ret[1].stored = Some(Len(Cleaned(c)))

---------------------------------------------------------------------------
(* Successive cycles over a channel the device keeps posting to, with the  *)
(* fetch window (TS_FETCH_RESULTS) shorter than the channel's history, so   *)
(* that the windows of successive cycles overlap and slide forward.        *)

\* The posts of the device while the system is observed.
MaxPosts == 4

\* TS_FETCH_RESULTS of this deployment.
SLIDE_RESULTS == 2

\* The device posts its next entry: EntrySeq in order, timestamps ascending.
Post ==
    /\ Len(channel) < MaxPosts
    /\ channel' = Append(channel, EntrySeq[Len(channel) + 1])
    /\ UNCHANGED <<analysis, results, env, startup, ingestion_service, f_press, sensors, readings,
                   assessments, task, timer, waited, lastOutcome, cancel>>

SlideInit ==
    /\ env = [v \in Required |-> TRUE]
    /\ startup = "ok"
    /\ ingestion_service = TRUE
    /\ f_press = None
    /\ results = SLIDE_RESULTS
    /\ channel = <<>>
    /\ sensors = <<>>
    /\ readings = <<>>
    /\ assessments = {}
    /\ task = [tk \in Tasks |-> IF tk = "poll" THEN Locals("fetch") ELSE Locals("idle")]
    /\ timer = 0
    /\ waited = 0
    /\ lastOutcome = "none"
    /\ cancel = "no"
    /\ request = None
    /\ response = None

SlideNext == Step("poll") \/ Tick \/ Wake \/ Post

SlideSpec == SlideInit /\ [][SlideNext]_vars

\* The sample of type k posted at minute ts is in the batch of a _sync_one
\* that ran its spike filter and did not accept it.
RejectedNow(k, ts) ==
    \E c \in Written :
        /\ c.type = Types[k]
        /\ \E i \in 1..Len(c.parsed) : c.parsed[i].ts = ts
        /\ \A j \in 1..Len(Cleaned(c)) : Cleaned(c)[j].ts # ts

\* ... is accepted by such a _sync_one.
AcceptedNow(k, ts) ==
    \E c \in Written : c.type = Types[k] /\ \E j \in 1..Len(Cleaned(c)) : Cleaned(c)[j].ts = ts

\* ... is in the readings collection.
StoredKey(k, ts) ==
    \E j \in 1..Len(readings) : sensors[readings[j].sensor] = Types[k] /\ readings[j].ts = ts

============================================================================
